---- MODULE Spec2Model ----
(***************************************************************************)
(* Verification model of the Yumeri-Craft-SDK core:                        *)
(*   - FileDownloader.downloadFile / validateFileSha1 / downloadFiles      *)
(*     (src/src/utils/downloader.ts, first class of the file)              *)
(*   - GameLauncher.generateLaunchCommand and its helpers                  *)
(*     (src/src/launchers/game-launcher.ts, first class of the file)       *)
(*   - LibrariesDownloader.isLibraryApplicable / getLibraryPath            *)
(*     (src/src/downloaders/libraries-downloader.ts)                       *)
(*   - FabricInstaller.installFabric / ForgeInstaller.installForge         *)
(*     (src/unnamed/part_001, src/unnamed/part_002)                        *)
(*   - VersionManager.getVersionManifest / getVersionInfo                  *)
(*     (src/src/downloaders/version-manager.ts)                            *)
(*   - AssetsDownloader.downloadAssets                                     *)
(*     (src/src/downloaders/assets-downloader.ts)                          *)
(*   - LibrariesDownloader.downloadLibraries, natives directory            *)
(*   - MinecraftDownloader.downloadClient                                  *)
(*     (src/src/downloaders/minecraft-downloader.ts)                       *)
(*   - the descriptor file of a version under the public operations, and   *)
(*     the two merges applied to three descriptors in both groupings       *)
(*   - GameLauncher.replaceArguments on launch parameters that carry       *)
(*     free-form keys (src/src/types/index.ts, LaunchArguments)            *)
(* Each subsystem has its own specification (SpecFile, SpecBatch,          *)
(* SpecRules, SpecLaunch, SpecInstall, SpecCache, SpecAssets, SpecNatives, *)
(* SpecClient, SpecLifecycle, SpecMerge, SpecResolver); the variables of   *)
(* the other subsystems stay at their idle values. SpecFileFair is         *)
(* SpecFile with weak fairness, for the liveness of downloadFile;          *)
(* SpecBatchFair is SpecBatch with weak fairness, for the liveness of      *)
(* downloadFiles.                                                          *)
(***************************************************************************)
EXTENDS Integers, Sequences, FiniteSets, TLC

\* ---- variables of FileDownloader.downloadFile (one call, with its redirects)
VARIABLES dlpc, disk, disk0, expectedSha1, hops, httpRequests,
          response, hash, writer, ended, returned, error,
          terminalBody, progressCalls

\* ---- variables of FileDownloader.downloadFiles (one call)
VARIABLES bpc, downloads, maxConcurrent, call, handled, attempts, results,
          successCount, failedCount, activeDownloads, currentIndex, returnValue

fileVars  == <<dlpc, disk, disk0, expectedSha1, hops, httpRequests,
               response, hash, writer, ended, returned, error,
              terminalBody, progressCalls>>
batchVars == <<bpc, downloads, maxConcurrent, call, handled, attempts, results,
               successCount, failedCount, activeDownloads, currentIndex, returnValue>>

\* ---- the host (os.platform(), os.arch())
VARIABLES platform, arch

\* ---- variables of one rule evaluation by isLibraryApplicable and evaluateRules
VARIABLES rpc, hasRules, rules, ruleArgs, libraryVerdict, launcherVerdict,
          classpathVerdict

hostVars == <<platform, arch>>
ruleVars == <<rpc, hasRules, rules, ruleArgs, libraryVerdict, launcherVerdict,
             classpathVerdict>>

\* ---- variables of GameLauncher.generateLaunchCommand (one call)
VARIABLES lpc, versionJson, options, configure, classpath, launchArgs,
          jvmArgs, gameArgs, args, fullCommand, spawned

launchVars == <<lpc, versionJson, options, configure, classpath, launchArgs,
                jvmArgs, gameArgs, args, fullCommand, spawned>>

\* ---- variables of FabricInstaller.installFabric / ForgeInstaller.installForge
\*      (calls made in succession on one data directory)
VARIABLES ipc, loader, targetVersionName, overlayJson, versionsDir, versionsDir0,
          tempDir, originalVersionJson, mergedJson, installResult, installs,
          descriptorAfterFirst

installVars == <<ipc, loader, targetVersionName, overlayJson, versionsDir, versionsDir0,
                 tempDir, originalVersionJson, mergedJson, installResult, installs,
                 descriptorAfterFirst>>

\* ---- variables of VersionManager.getVersionManifest / getVersionInfo
\*      (calls made in succession on one VersionManager)
VARIABLES cpc, now, versionManifest, manifestFile, versionCache, versionFiles,
          cacheCall, atCall, caller, networkLog, cacheResult, cacheCalls

cacheVars == <<cpc, now, versionManifest, manifestFile, versionCache, versionFiles,
               cacheCall, atCall, caller, networkLog, cacheResult, cacheCalls>>

\* ---- variables of AssetsDownloader.downloadAssets (runs made in succession
\*      on one data directory)
VARIABLES apc, objects, downloadQueue, maxConcurrentDownloads,
          queueIndex, task, assetActive, completedDownload, success, failed,
          assetRequests, assetResult, assetRuns

assetVars == <<apc, objects, downloadQueue, maxConcurrentDownloads,
               queueIndex, task, assetActive, completedDownload, success,
               failed, assetRequests, assetResult, assetRuns>>

\* ---- variables of LibrariesDownloader.downloadLibraries, native part (passes
\*      made in succession for one version name)
VARIABLES npc, classVersion, nativeDir, nativeLibrariesToDownload,
          ntask, metaInfRemoval, extractedInPass, nativeResults, passes,
          libraryConcurrency, normalLibrariesToDownload, normalIndex,
          normalActive

nativeVars == <<npc, classVersion, nativeDir, nativeLibrariesToDownload,
                ntask, metaInfRemoval, extractedInPass, nativeResults,
                passes, libraryConcurrency, normalLibrariesToDownload,
                normalIndex, normalActive>>

\* ---- variables of MinecraftDownloader.downloadClient (calls made in succession
\*      on one MinecraftDownloader)
VARIABLES kpc, validateIntegrity, assetsVariant, clientJar,
          versionJsonFile, libraryJar, assetIndexFile, assetObject,
          httpLog, servedClient, clientResult, clientCalls, afterFirst

clientVars == <<kpc, validateIntegrity, assetsVariant, clientJar,
                versionJsonFile, libraryJar, assetIndexFile,
                assetObject, httpLog, servedClient, clientResult,
                clientCalls, afterFirst>>

\* ---- variables of the descriptor file versions/<name>/<name>.json under the public operations applied to one version name
VARIABLES servedInfo, vjFile, lastOp, opsDone

lifecycleVars == <<servedInfo, vjFile, lastOp, opsDone>>

\* ---- variables of mergeFabricConfig / mergeForgeConfig applied to three descriptors in both groupings
VARIABLES mpc, mergeKind, descriptorA, descriptorB, descriptorC,
          mergedAB, mergedABthenC, mergedBC, mergedAthenBC

mergeVars == <<mpc, mergeKind, descriptorA, descriptorB, descriptorC,
               mergedAB, mergedABthenC, mergedBC, mergedAthenBC>>

\* ---- variables of GameLauncher.replaceArguments (one call on one token)
VARIABLES resolverPc, resolverArg, resolverLaunchArgs,
          resolverClasspath, resolverConfigure, resolverResult

resolverVars == <<resolverPc, resolverArg, resolverLaunchArgs,
                  resolverClasspath, resolverConfigure, resolverResult>>

\* what each subsystem leaves alone
notFileVars    == <<batchVars, hostVars, ruleVars, launchVars, installVars, cacheVars, assetVars, nativeVars, clientVars, lifecycleVars, mergeVars, resolverVars>>
notBatchVars   == <<fileVars, hostVars, ruleVars, launchVars, installVars, cacheVars, assetVars, nativeVars, clientVars, lifecycleVars, mergeVars, resolverVars>>
notRuleVars    == <<fileVars, batchVars, hostVars, launchVars, installVars, cacheVars, assetVars, nativeVars, clientVars, lifecycleVars, mergeVars, resolverVars>>
notLaunchVars  == <<fileVars, batchVars, hostVars, ruleVars, installVars, cacheVars, assetVars, nativeVars, clientVars, lifecycleVars, mergeVars, resolverVars>>
notInstallVars == <<fileVars, batchVars, hostVars, ruleVars, launchVars, cacheVars, assetVars, nativeVars, clientVars, lifecycleVars, mergeVars, resolverVars>>
notCacheVars   == <<fileVars, batchVars, hostVars, ruleVars, launchVars, installVars, assetVars, nativeVars, clientVars, lifecycleVars, mergeVars, resolverVars>>
notAssetVars == <<fileVars, batchVars, hostVars, ruleVars, launchVars, installVars, cacheVars, nativeVars, clientVars, lifecycleVars, mergeVars, resolverVars>>
notNativeVars == <<fileVars, batchVars, hostVars, ruleVars, launchVars, installVars, cacheVars, assetVars, clientVars, lifecycleVars, mergeVars, resolverVars>>
notClientVars == <<fileVars, batchVars, hostVars, ruleVars, launchVars, installVars, cacheVars, assetVars, nativeVars, lifecycleVars, mergeVars, resolverVars>>
notLifecycleVars == <<fileVars, batchVars, hostVars, ruleVars, launchVars, installVars, cacheVars, assetVars, nativeVars, clientVars, mergeVars, resolverVars>>
notMergeVars == <<fileVars, batchVars, hostVars, ruleVars, launchVars, installVars, cacheVars, assetVars, nativeVars, clientVars, lifecycleVars, resolverVars>>
notResolverVars == <<fileVars, batchVars, hostVars, ruleVars, launchVars, installVars, cacheVars, assetVars, nativeVars, clientVars, lifecycleVars, mergeVars>>

\* every variable of the module
vars == <<fileVars, batchVars, hostVars, ruleVars, launchVars, installVars, cacheVars, assetVars, nativeVars, clientVars, lifecycleVars, mergeVars, resolverVars>>

\* ---------------------------------------------------------------- bounds
MaxBody  == 2    \* longest response body / file, in chunks
MaxHops  == 2    \* longest redirect chain
MaxFiles == 3    \* largest batch handed to downloadFiles
MaxConc  == 2    \* largest maxConcurrent handed to downloadFiles
MaxRules == 2    \* longest rule list
MaxLibs  == 2    \* longest library list of a version descriptor
MaxInstalls == 2 \* installFabric / installForge calls made in succession
MaxEntries == 2  \* longest library list of a descriptor being merged
MaxCacheCalls == 2 \* getVersionManifest / getVersionInfo calls made in succession
MaxClock == 27   \* latest hour the clock reaches
MaxAssets == 2   \* most entries of an asset index
MaxAssetRuns == 2 \* downloadAssets runs made in succession
MaxNatives == 2  \* most applicable native libraries of a descriptor
MaxPasses == 2   \* downloadLibraries passes made in succession
MaxClientCalls == 2 \* downloadClient calls made in succession
MaxOperations == 3 \* public operations applied in succession to one version name

\* ---------------------------------------------------------------- helpers
Min(a, b) == IF a < b THEN a ELSE b

RECURSIVE SeqsUpTo(_, _)
SeqsUpTo(S, n) ==
  IF n = 0 THEN {<<>>}
  ELSE LET shorter == SeqsUpTo(S, n - 1)
       IN  shorter \cup {Append(s, x) : s \in {t \in shorter : Len(t) = n - 1}, x \in S}

\* ---------------------------------------------------------------- idle values
\* downloadFiles has not been called
BatchIdle ==
  /\ bpc = "off" /\ downloads = 0 /\ maxConcurrent = 0
  /\ call = <<>> /\ handled = {} /\ attempts = <<>> /\ results = <<>>
  /\ successCount = 0 /\ failedCount = 0 /\ activeDownloads = 0
  /\ currentIndex = 0 /\ returnValue = <<>>

\* the host where the host does not matter
HostIdle == platform = "linux" /\ arch = "x64"

\* no rule list is being evaluated
RulesIdle ==
  /\ rpc = "off" /\ hasRules = FALSE /\ rules = <<>> /\ ruleArgs = <<>>
  /\ libraryVerdict = "none" /\ launcherVerdict = "none"
  /\ classpathVerdict = "none"

\* generateLaunchCommand has not been called
LaunchIdle ==
  /\ lpc = "off" /\ versionJson = <<>> /\ options = <<>> /\ configure = <<>>
  /\ classpath = <<>> /\ launchArgs = <<>> /\ jvmArgs = <<>> /\ gameArgs = <<>>
  /\ args = <<>> /\ fullCommand = <<>> /\ spawned = <<>>

\* no loader is being installed
InstallIdle ==
  /\ ipc = "off" /\ loader = "none" /\ targetVersionName = "" /\ overlayJson = <<>>
  /\ versionsDir = <<>> /\ versionsDir0 = <<>> /\ tempDir = FALSE
  /\ originalVersionJson = <<>> /\ mergedJson = <<>> /\ installResult = <<>>
  /\ installs = 0 /\ descriptorAfterFirst = <<>>

\* no VersionManager call has been made
CacheIdle ==
  /\ cpc = "off" /\ now = 0 /\ versionManifest = <<>> /\ manifestFile = <<>>
  /\ versionCache = <<>> /\ versionFiles = <<>> /\ cacheCall = <<>> /\ atCall = <<>>
  /\ caller = "none" /\ networkLog = <<>> /\ cacheResult = <<>> /\ cacheCalls = 0

\* downloadAssets has not been called
AssetIdle ==
  /\ apc = "off" /\ objects = <<>> /\ downloadQueue = <<>>
  /\ maxConcurrentDownloads = 0 /\ queueIndex = 0 /\ task = <<>>
  /\ assetActive = {} /\ success = 0 /\ failed = 0 /\ assetRequests = 0
  /\ assetResult = <<>> /\ assetRuns = 0 /\ completedDownload = "none"

\* downloadLibraries has not been called
NativeIdle ==
  /\ npc = "off" /\ classVersion = 0 /\ nativeDir = <<>>
  /\ nativeLibrariesToDownload = {} /\ ntask = <<>> /\ metaInfRemoval = "none"
  /\ extractedInPass = {} /\ nativeResults = <<>> /\ passes = 0
  /\ libraryConcurrency = 0 /\ normalLibrariesToDownload = 0
  /\ normalIndex = 0 /\ normalActive = 0

\* downloadClient has not been called
ClientIdle ==
  /\ kpc = "off" /\ validateIntegrity = FALSE /\ assetsVariant = "none"
  /\ clientJar = <<>> /\ versionJsonFile = <<>> /\ libraryJar = <<>>
  /\ assetIndexFile = <<>> /\ assetObject = <<>> /\ httpLog = {}
  /\ servedClient = <<>> /\ clientResult = <<>> /\ clientCalls = 0
  /\ afterFirst = <<>>

\* no operation has been applied to the version directory
LifecycleIdle ==
  /\ servedInfo = <<>> /\ vjFile = <<>> /\ lastOp = <<>> /\ opsDone = 0

\* no merge is being evaluated
MergeIdle ==
  /\ mpc = "off" /\ mergeKind = "none" /\ descriptorA = <<>> /\ descriptorB = <<>>
  /\ descriptorC = <<>> /\ mergedAB = <<>> /\ mergedABthenC = <<>>
  /\ mergedBC = <<>> /\ mergedAthenBC = <<>>

\* replaceArguments has not been called on its own
ResolverIdle ==
  /\ resolverPc = "off" /\ resolverArg = <<>> /\ resolverLaunchArgs = <<>>
  /\ resolverClasspath = <<>> /\ resolverConfigure = <<>> /\ resolverResult = <<>>

\* =========================================================================
\*  FileDownloader.downloadFile
\* =========================================================================
Chunks == {"x", "y"}
Bodies == SeqsUpTo(Chunks, MaxBody)

\* crypto.createHash('sha1')...digest('hex'): a non-empty lowercase hex
\* string that is a function of the bytes only (collision-free idealisation:
\* a leading digit, then one hex digit per chunk).
HexOfChunk(c) == IF c = "x" THEN "a" ELSE "b"
Sha1Hex(data) == <<"d">> \o [i \in 1..Len(data) |-> HexOfChunk(data[i])]

\* String.prototype.toLowerCase on a hex string
LowerChar(h) == CASE h = "A" -> "a" [] h = "B" -> "b" [] h = "D" -> "d" [] OTHER -> h
ToLowerCase(s) == [i \in 1..Len(s) |-> LowerChar(s[i])]
UpperChar(h) == CASE h = "a" -> "A" [] h = "b" -> "B" [] h = "d" -> "D" [] OTHER -> h
ToUpperCase(s) == [i \in 1..Len(s) |-> UpperChar(s[i])]

\* the optional expectedSha1 argument: undefined, or a string; the code tests
\* it for truthiness, so the empty string counts as not given
NoSha1 == [given |-> FALSE, hex |-> <<>>]
GivenSha1(h) == [given |-> TRUE, hex |-> h]
ExpectedGiven(e) == e.given /\ e.hex # <<>>
ExpectedSha1s ==
  {NoSha1, GivenSha1(<<>>)} \cup {GivenSha1(Sha1Hex(b)) : b \in Bodies}
           \cup {GivenSha1(ToUpperCase(Sha1Hex(b))) : b \in Bodies}

\* the file at filePath
NoFile == [exists |-> FALSE, data |-> <<>>]
FileOf(d) == [exists |-> TRUE, data |-> d]
Files == {NoFile} \cup {FileOf(b) : b \in Bodies}

Sha1MatchesFlipped(actualSha1, expected) ==
  ToLowerCase(actualSha1) # ToLowerCase(expected)
\* actualSha1.toLowerCase() === expectedSha1.toLowerCase()
Sha1Matches(actualSha1, expected) ==
  ToLowerCase(actualSha1) = ToLowerCase(expected)

\* validateFileSha1(filePath, expectedSha1)
validateFileSha1(file, expected) ==
  IF ~file.exists THEN FALSE
  ELSE Sha1Matches(Sha1Hex(file.data), expected)

\* downloadFile has not been called
FileIdle ==
  /\ dlpc = "off" /\ disk = NoFile /\ disk0 = NoFile /\ expectedSha1 = NoSha1
  /\ hops = 0 /\ httpRequests = 0 /\ response = <<>> /\ hash = <<>>
  /\ writer = <<>> /\ ended = FALSE /\ returned = "none" /\ error = "none"
  /\ terminalBody = <<>> /\ progressCalls = <<>>

InitFile ==
  /\ BatchIdle
  /\ HostIdle
  /\ RulesIdle
  /\ LaunchIdle
  /\ InstallIdle
  /\ CacheIdle
  /\ AssetIdle
  /\ NativeIdle
  /\ ClientIdle
  /\ LifecycleIdle
  /\ MergeIdle
  /\ ResolverIdle
  /\ dlpc = "called"
  /\ disk \in Files
  /\ disk0 = disk
  /\ expectedSha1 \in ExpectedSha1s
  /\ hops = 0 /\ httpRequests = 0 /\ response = <<>> /\ hash = <<>>
  /\ writer = <<>> /\ ended = FALSE /\ returned = "none" /\ error = "none"
  /\ terminalBody = <<>> /\ progressCalls = <<>>

\* the promise of line 40 is rejected. It is returned from the try block
\* without being awaited, so the async function has already left the try
\* statement: the rejection settles the call's own promise and the catch
\* block of lines 141-154 does not run. A redirected inner call that rejects
\* rejects every enclosing call (lines 52-54). The request, the response and
\* the writer are destroyed on the way (request.destroy(),
\* response.destroy(), writer.destroy()), so nothing they still buffer is
\* delivered.
Reject(msg) ==
  /\ dlpc' = "done"
  /\ returned' = "rejected"
  /\ error' = msg
  /\ response' = <<>>
  /\ hash' = <<>>
  /\ writer' = <<>>
  /\ ended' = FALSE

\* lines 27-35 (and, on a miss, 38-41: the GET is issued)
CheckExistingSkipped ==
  /\ dlpc = "called"
  /\ dlpc' = "request"
  /\ httpRequests' = httpRequests + 1
  /\ UNCHANGED <<disk, disk0, expectedSha1, hops, response, hash, writer,
                 ended, returned, error>>
  /\ UNCHANGED <<terminalBody, progressCalls>>
  /\ UNCHANGED notFileVars

CheckExisting ==
  /\ dlpc = "called"
  /\ IF ExpectedGiven(expectedSha1) /\ validateFileSha1(disk, expectedSha1.hex)
     THEN /\ dlpc' = "done"
          /\ returned' = "true"
          /\ UNCHANGED httpRequests
     ELSE /\ dlpc' = "request"
          /\ httpRequests' = httpRequests + 1
          /\ UNCHANGED returned
  /\ UNCHANGED <<disk, disk0, expectedSha1, hops, response, hash, writer, ended, error>>
  /\ UNCHANGED <<terminalBody, progressCalls>>
  /\ UNCHANGED notFileVars

\* lines 43-56: redirect status with a Location header, recursive call
Redirect ==
  /\ dlpc = "request"
  /\ hops < MaxHops
  /\ hops' = hops + 1
  /\ dlpc' = "called"
  /\ UNCHANGED <<disk, disk0, expectedSha1, httpRequests, response, hash,
                 writer, ended, returned, error>>
  /\ UNCHANGED <<terminalBody, progressCalls>>
  /\ UNCHANGED notFileVars

\* lines 45-47: redirect status without Location
RedirectNoLocation ==
  /\ dlpc = "request"
  /\ Reject("no location")
  /\ UNCHANGED <<disk, disk0, expectedSha1, hops, httpRequests>>
  /\ UNCHANGED <<terminalBody, progressCalls>>
  /\ UNCHANGED notFileVars

\* lines 59-62: any other status than 200
BadStatus ==
  /\ dlpc = "request"
  /\ Reject("status")
  /\ UNCHANGED <<disk, disk0, expectedSha1, hops, httpRequests>>
  /\ UNCHANGED <<terminalBody, progressCalls>>
  /\ UNCHANGED notFileVars

\* lines 130-132: request 'error'
RequestError ==
  /\ dlpc = "request"
  /\ Reject("request error")
  /\ UNCHANGED <<disk, disk0, expectedSha1, hops, httpRequests>>
  /\ UNCHANGED <<terminalBody, progressCalls>>
  /\ UNCHANGED notFileVars

\* lines 135-138: socket timeout, before or during the body
Timeout ==
  /\ dlpc \in {"request", "stream"}
  /\ Reject("timeout")
  /\ UNCHANGED <<disk, disk0, expectedSha1, hops, httpRequests>>
  /\ UNCHANGED <<terminalBody, progressCalls>>
  /\ UNCHANGED notFileVars

\* lines 64-72, 91: status 200; createWriteStream(filePath, {flags:'w'})
\* creates or truncates the file, the body is piped into the writer
Status200(body) ==
  /\ dlpc = "request"
  /\ dlpc' = "stream"
  /\ disk' = FileOf(<<>>)
  /\ response' = body
  /\ hash' = <<>>
  /\ writer' = <<>>
  /\ ended' = FALSE
  /\ UNCHANGED <<disk0, expectedSha1, hops, httpRequests, returned, error>>
  /\ terminalBody' = body
  /\ progressCalls' = <<>>
  /\ UNCHANGED notFileVars

\* lines 75-88: 'data' event; the chunk is hashed, handed to the writer and
\* reported to onProgress (a callback is given, and content-length is the
\* length of the body, so totalSize > 0 whenever a chunk arrives)
OnData ==
  /\ dlpc = "stream"
  /\ response # <<>>
  /\ response' = Tail(response)
  /\ hash' = IF ExpectedGiven(expectedSha1) THEN Append(hash, Head(response)) ELSE hash
  /\ writer' = Append(writer, Head(response))
  /\ UNCHANGED <<dlpc, disk, disk0, expectedSha1, hops, httpRequests, ended,
                 returned, error>>
  /\ progressCalls' = Append(progressCalls, Len(terminalBody) - Len(response'))
  /\ UNCHANGED terminalBody
  /\ UNCHANGED notFileVars

\* the write stream flushes one buffered chunk to the file
WriterFlush ==
  /\ dlpc = "stream"
  /\ writer # <<>>
  /\ writer' = Tail(writer)
  /\ disk' = FileOf(disk.data \o <<Head(writer)>>)
  /\ UNCHANGED <<dlpc, disk0, expectedSha1, hops, httpRequests, response, hash,
                 ended, returned, error>>
  /\ UNCHANGED <<terminalBody, progressCalls>>
  /\ UNCHANGED notFileVars

\* line 91: the response ends, pipe() ends the writer
OnEnd ==
  /\ dlpc = "stream"
  /\ response = <<>>
  /\ ~ended
  /\ ended' = TRUE
  /\ UNCHANGED <<dlpc, disk, disk0, expectedSha1, hops, httpRequests, response,
                 hash, writer, returned, error>>
  /\ UNCHANGED <<terminalBody, progressCalls>>
  /\ UNCHANGED notFileVars

OnFinishUncheckedAfterRedirect ==
  /\ dlpc = "stream"
  /\ ended
  /\ writer = <<>>
  /\ IF hops = 0 /\ ExpectedGiven(expectedSha1)
        /\ ~Sha1Matches(Sha1Hex(hash), expectedSha1.hex)
     THEN /\ disk' = NoFile
          /\ Reject("sha1 mismatch")
          /\ UNCHANGED progressCalls
     ELSE /\ dlpc' = "done"
          /\ returned' = "true"
          /\ progressCalls' = IF Len(terminalBody) > 0
                              THEN Append(progressCalls, Len(terminalBody))
                              ELSE progressCalls
          /\ UNCHANGED <<disk, error, response, hash, writer, ended>>
  /\ UNCHANGED <<disk0, expectedSha1, hops, httpRequests>>
  /\ UNCHANGED terminalBody
  /\ UNCHANGED notFileVars

\* lines 94-114: writer 'finish'; a verified download reports 100% when
\* totalSize > 0
OnFinish ==
  /\ dlpc = "stream"
  /\ ended
  /\ writer = <<>>
  /\ IF ExpectedGiven(expectedSha1) /\ ~Sha1Matches(Sha1Hex(hash), expectedSha1.hex)
     THEN /\ disk' = NoFile                      \* await fs.unlink(filePath)
          /\ Reject("sha1 mismatch")
          /\ UNCHANGED progressCalls
     ELSE /\ dlpc' = "done"
          /\ returned' = "true"
          /\ progressCalls' = IF Len(terminalBody) > 0
                              THEN Append(progressCalls, Len(terminalBody))
                              ELSE progressCalls
          /\ UNCHANGED <<disk, error, response, hash, writer, ended>>
  /\ UNCHANGED <<disk0, expectedSha1, hops, httpRequests>>
  /\ UNCHANGED terminalBody
  /\ UNCHANGED notFileVars

\* lines 117-120: writer 'error'
OnWriterError ==
  /\ dlpc = "stream"
  /\ Reject("write error")
  /\ UNCHANGED <<disk, disk0, expectedSha1, hops, httpRequests>>
  /\ UNCHANGED <<terminalBody, progressCalls>>
  /\ UNCHANGED notFileVars

\* lines 123-126: response 'error' after the write stream was opened
OnResponseError ==
  /\ dlpc = "stream"
  /\ Reject("response error")
  /\ UNCHANGED <<disk, disk0, expectedSha1, hops, httpRequests>>
  /\ UNCHANGED <<terminalBody, progressCalls>>
  /\ UNCHANGED notFileVars

\* line 29: ensureDir throws inside the try block (the directory cannot be
\* created); with a file at filePath its directory exists and ensureDir
\* succeeds
EnsureDirFails ==
  /\ dlpc = "called"
  /\ ~disk.exists
  /\ dlpc' = "catch"
  /\ error' = "ensureDir"
  /\ UNCHANGED <<disk, disk0, expectedSha1, hops, httpRequests, response, hash,
                 writer, ended, returned>>
  /\ UNCHANGED <<terminalBody, progressCalls>>
  /\ UNCHANGED notFileVars

\* lines 141-154: the catch block, entered by what is thrown while the try
\* block is still running; an inner (redirected) call that returns false
\* resolves every enclosing call with false (lines 52-54)
Catch ==
  /\ dlpc = "catch"
  /\ disk' = IF disk.exists THEN NoFile ELSE disk
  /\ dlpc' = "done"
  /\ returned' = "false"
  /\ UNCHANGED <<disk0, expectedSha1, hops, httpRequests, response, hash,
                 writer, ended, error>>
  /\ UNCHANGED <<terminalBody, progressCalls>>
  /\ UNCHANGED notFileVars

NextFile ==
  \/ CheckExisting
  \/ EnsureDirFails
  \/ Redirect
  \/ RedirectNoLocation
  \/ BadStatus
  \/ RequestError
  \/ Timeout
  \/ \E body \in Bodies : Status200(body)
  \/ OnData
  \/ WriterFlush
  \/ OnEnd
  \/ OnFinish
  \/ OnWriterError
  \/ OnResponseError
  \/ Catch

\* =========================================================================
\*  FileDownloader.downloadFiles
\* =========================================================================
\* downloads is the number of entries of the batch; entry i stands for
\* downloads[i-1] (its url and filePath are its index)
InitBatch ==
  /\ FileIdle
  /\ HostIdle
  /\ RulesIdle
  /\ LaunchIdle
  /\ InstallIdle
  /\ CacheIdle
  /\ AssetIdle
  /\ NativeIdle
  /\ ClientIdle
  /\ LifecycleIdle
  /\ MergeIdle
  /\ ResolverIdle
  /\ bpc = "called"
  /\ downloads \in 0..MaxFiles
  /\ maxConcurrent \in 0..MaxConc
  /\ call = [i \in 1..downloads |-> "unstarted"]
  /\ handled = {}
  /\ attempts = [i \in 1..downloads |-> 0]
  /\ results = <<>>
  /\ successCount = 0 /\ failedCount = 0 /\ activeDownloads = 0
  /\ currentIndex = 0 /\ returnValue = <<>>

\* lines 244-246: number of processNext() calls of the start loop
InitialStartsOffByOne(mc, n) == Min(mc + 1, n)
InitialStarts(mc, n) == Min(mc, n)

\* lines 211-218: k consecutive processNext() calls, each up to its await
\* of downloadFile
RECURSIVE ProcessNext(_, _)
ProcessNext(s, k) ==
  IF k = 0 \/ ~(s.currentIndex < downloads) THEN s
  ELSE ProcessNext(
         [currentIndex    |-> s.currentIndex + 1,
          activeDownloads |-> s.activeDownloads + 1,
          call     |-> [s.call EXCEPT ![s.currentIndex + 1] = "pending"],
          attempts |-> [s.attempts EXCEPT ![s.currentIndex + 1] = @ + 1]],
         k - 1)

Sched == [currentIndex |-> currentIndex, activeDownloads |-> activeDownloads,
          call |-> call, attempts |-> attempts]

\* lines 250-257
CompletionReached(active, index) == active = 0 /\ index = downloads

\* lines 203-258: the call up to the first checkCompletion()
DownloadFiles ==
  /\ bpc = "called"
  /\ LET s == ProcessNext(Sched, InitialStarts(maxConcurrent, downloads))
     IN  /\ currentIndex' = s.currentIndex
         /\ activeDownloads' = s.activeDownloads
         /\ call' = s.call
         /\ attempts' = s.attempts
         /\ IF CompletionReached(s.activeDownloads, s.currentIndex)
            THEN /\ bpc' = "returned"
                 /\ returnValue' = [success |-> successCount, failed |-> failedCount,
                                    results |-> results]
            ELSE /\ bpc' = "waiting"
                 /\ UNCHANGED returnValue
  /\ UNCHANGED <<downloads, maxConcurrent, handled, results, successCount, failedCount>>
  /\ UNCHANGED notBatchVars

\* the downloadFile call of entry i settles: resolves true or false, or rejects;
\* processNext resumes in a later turn of the event loop (ProcessNextResume)
Outcomes == {"true", "false", "throw"}
SettleDownloadFile(i, outcome) ==
  /\ bpc = "waiting"
  /\ call[i] = "pending"
  /\ call' = [call EXCEPT ![i] = outcome]
  /\ UNCHANGED <<bpc, downloads, maxConcurrent, handled, attempts, results,
                 successCount, failedCount, activeDownloads, currentIndex, returnValue>>
  /\ UNCHANGED notBatchVars

\* lines 219-235: the record pushed for entry i
ResultsPushDroppedOnThrow(res, i, outcome) ==
  IF outcome = "throw" THEN res
  ELSE Append(res, [entry |-> i, success |-> (outcome = "true")])
ResultsPush(res, i, outcome) ==
  Append(res, [entry |-> i, success |-> (outcome = "true")])

\* processNext's finally block starting the next entries only once every
\* active call has been handled, maxConcurrent of them at a time
ProcessNextResumeByGroups(i) ==
  /\ bpc = "waiting"
  /\ call[i] \in Outcomes
  /\ i \notin handled
  /\ handled' = handled \cup {i}
  /\ results' = ResultsPush(results, i, call[i])
  /\ successCount' = IF call[i] = "true" THEN successCount + 1 ELSE successCount
  /\ failedCount' = IF call[i] = "true" THEN failedCount ELSE failedCount + 1
  /\ LET s == ProcessNext([currentIndex |-> currentIndex,
                           activeDownloads |-> activeDownloads - 1,
                           call |-> call,
                           attempts |-> attempts],
                          IF activeDownloads = 1 THEN maxConcurrent ELSE 0)
     IN  /\ currentIndex' = s.currentIndex
         /\ activeDownloads' = s.activeDownloads
         /\ call' = s.call
         /\ attempts' = s.attempts
  /\ UNCHANGED <<bpc, downloads, maxConcurrent, returnValue>>
  /\ UNCHANGED notBatchVars

\* lines 219-239: processNext resumes after its await: try or catch branch,
\* then finally
ProcessNextResume(i) ==
  /\ bpc = "waiting"
  /\ call[i] \in Outcomes
  /\ i \notin handled
  /\ handled' = handled \cup {i}
  /\ results' = ResultsPush(results, i, call[i])
  /\ successCount' = IF call[i] = "true" THEN successCount + 1 ELSE successCount
  /\ failedCount' = IF call[i] = "true" THEN failedCount ELSE failedCount + 1
  /\ LET s == ProcessNext([currentIndex |-> currentIndex,
                           activeDownloads |-> activeDownloads - 1,
                           call |-> call,
                           attempts |-> attempts], 1)
     IN  /\ currentIndex' = s.currentIndex
         /\ activeDownloads' = s.activeDownloads
         /\ call' = s.call
         /\ attempts' = s.attempts
  /\ UNCHANGED <<bpc, downloads, maxConcurrent, returnValue>>
  /\ UNCHANGED notBatchVars

\* lines 250-257: the 100 ms poll; it re-arms itself until the condition holds
CheckCompletion ==
  /\ bpc = "waiting"
  /\ IF CompletionReached(activeDownloads, currentIndex)
     THEN /\ bpc' = "returned"
          /\ returnValue' = [success |-> successCount, failed |-> failedCount,
                             results |-> results]
     ELSE UNCHANGED <<bpc, returnValue>>
  /\ UNCHANGED <<downloads, maxConcurrent, call, handled, attempts, results,
                 successCount, failedCount, activeDownloads, currentIndex>>
  /\ UNCHANGED notBatchVars

NextBatch ==
  \/ DownloadFiles
  \/ \E i \in 1..downloads, outcome \in Outcomes : SettleDownloadFile(i, outcome)
  \/ \E i \in 1..downloads : ProcessNextResume(i)
  \/ CheckCompletion

\* =========================================================================
\*  values of launch parameters (JavaScript string | number | undefined)
\* =========================================================================
\* A string is a sequence of atoms (substrings); the atoms "${", "}", "--"
\* and " " are the only ones that contain those characters.
Undefined == [t |-> "undefined", v |-> <<>>]
Str(atoms) == [t |-> "string", v |-> atoms]
Num(digits) == [t |-> "number", v |-> <<digits>>]
Arr(strs) == [t |-> "array", v |-> strs]

\* JavaScript truthiness: undefined, '' and 0 are falsy
Truthy(x) ==
  \/ x.t = "array"
  \/ /\ x.t # "undefined"
     /\ x.v # <<>>
     /\ ~(x.t = "number" /\ x.v = <<"0">>)

\* launchArgs[key]; a key the object does not have reads as undefined
Get(largs, key) ==
  IF key \in DOMAIN largs THEN largs[key] ELSE Undefined

\* =========================================================================
\*  rules: LibrariesDownloader.isLibraryApplicable, GameLauncher.evaluateRules
\* =========================================================================
\* rule.os: absent, or {name?, arch?} ("" for an absent member)
NoOs == [present |-> FALSE, name |-> "", arch |-> ""]
Os(name, a) == [present |-> TRUE, name |-> name, arch |-> a]
\* rule.features: absent, or a map from feature key to boolean
NoFeatures == [present |-> FALSE, flags |-> <<>>]
Features(flags) == [present |-> TRUE, flags |-> flags]
Rule(action, os, features) == [action |-> action, os |-> os, features |-> features]

\* library.rules / arg.rules: absent, or a list
NoRules == [present |-> FALSE, list |-> <<>>]
Rules(list) == [present |-> TRUE, list |-> list]

\* LibrariesDownloader.getOsName
getOsName ==
  CASE platform = "win32"  -> "windows"
    [] platform = "darwin" -> "osx"
    [] platform = "linux"  -> "linux"
    [] OTHER -> platform

\* LibrariesDownloader.getOsArchitecture
getOsArchitecture ==
  CASE arch = "x64"   -> "x64"
    [] arch = "ia32"  -> "x86"
    [] arch = "arm64" -> "arm64"
    [] arch = "arm"   -> "arm"
    [] OTHER -> arch

\* isLibraryApplicable, line 57
appliesToOs(rule) ==
  \/ ~rule.os.present
  \/ /\ rule.os.name = getOsName
     /\ (rule.os.arch = "" \/ rule.os.arch = getOsArchitecture)

\* isLibraryApplicable, lines 54-70: the loop from rule i on, isAllowed so far
RECURSIVE LibraryLoop(_, _, _)
LibraryLoop(list, i, isAllowed) ==
  IF i > Len(list) THEN isAllowed
  ELSE IF list[i].action = "allow"
       THEN LibraryLoop(list, i + 1, IF appliesToOs(list[i]) THEN TRUE ELSE isAllowed)
       ELSE IF list[i].action = "disallow" /\ appliesToOs(list[i])
            THEN FALSE
            ELSE LibraryLoop(list, i + 1, isAllowed)

\* LibrariesDownloader.isLibraryApplicable(library), on library.rules
isLibraryApplicable(r) ==
  IF ~r.present \/ Len(r.list) = 0 THEN TRUE
  ELSE LibraryLoop(r.list, 1, FALSE)

\* GameLauncher.matchesOs
matchesOs(osRule) ==
  /\ \/ osRule.name = ""
     \/ osRule.name = "windows" /\ platform = "win32"
     \/ osRule.name = "osx" /\ platform = "darwin"
     \/ osRule.name = "linux" /\ platform = "linux"
  /\ \/ osRule.arch = ""
     \/ osRule.arch = "x86" /\ arch = "ia32"
     \/ osRule.arch = "x64" /\ arch = "x64"

\* GameLauncher.matchesFeatures: the launch parameter each feature key tests
FeatureNeeds ==
  [has_custom_resolution      |-> {"width", "height"},
   is_demo_user               |-> {"isDemoUser"},
   has_quick_plays_support    |-> {"quickPlayPath"},
   is_quick_play_singleplayer |-> {"quickPlaySingleplayer"},
   is_quick_play_multiplayer  |-> {"quickPlayMultiplayer"},
   is_quick_play_realms       |-> {"quickPlayRealms"}]

matchesFeaturesAnyKey(featuresRule, largs) ==
  \A f \in DOMAIN featuresRule \cap DOMAIN FeatureNeeds :
    featuresRule[f] => \E key \in FeatureNeeds[f] : Truthy(Get(largs, key))

matchesFeatures(featuresRule, largs) ==
  \A f \in DOMAIN featuresRule \cap DOMAIN FeatureNeeds :
    featuresRule[f] => \A key \in FeatureNeeds[f] : Truthy(Get(largs, key))

\* evaluateRules, lines 450-460 and 466-476: matches
RuleMatches(rule, largs) ==
  /\ rule.os.present => matchesOs(rule.os)
  /\ rule.features.present => matchesFeatures(rule.features.flags, largs)

\* evaluateRules, lines 446-484: the loop from rule i on, allowed so far
RECURSIVE LauncherLoop(_, _, _, _)
LauncherLoop(list, largs, i, allowed) ==
  IF i > Len(list) THEN allowed
  ELSE LauncherLoop(list, largs, i + 1,
         IF RuleMatches(list[i], largs)
         THEN (CASE list[i].action = "allow" -> TRUE
                 [] list[i].action = "disallow" -> FALSE
                 [] OTHER -> allowed)
         ELSE allowed)

\* GameLauncher.evaluateRules(rules, launchArgs)
evaluateRules(list, largs) == LauncherLoop(list, largs, 1, FALSE)

\* ---- the inputs
Platforms == {"win32", "darwin", "linux"}
Archs == {"x64", "ia32"}

OsClauses ==
  {NoOs, Os("linux", ""), Os("windows", ""), Os("osx", ""),
   Os("windows", "x86"), Os("", "x64")}
RuleSet ==
  {Rule(a, o, NoFeatures) : a \in {"allow", "disallow"}, o \in OsClauses}
  \cup {Rule("allow", NoOs, Features([has_custom_resolution |-> TRUE])),
        Rule("disallow", NoOs, Features([is_demo_user |-> TRUE]))}
RuleLists == SeqsUpTo(RuleSet, MaxRules)

\* the launch parameters the feature tests read
RuleArgSet ==
  {[width |-> w, height |-> h] : w \in {Undefined, Num("854")}, h \in {Num("480")}}

InitRules ==
  /\ FileIdle
  /\ BatchIdle
  /\ LaunchIdle
  /\ InstallIdle
  /\ CacheIdle
  /\ AssetIdle
  /\ NativeIdle
  /\ ClientIdle
  /\ LifecycleIdle
  /\ MergeIdle
  /\ ResolverIdle
  /\ platform \in Platforms
  /\ arch \in Archs
  /\ rpc = "called"
  /\ hasRules \in BOOLEAN
  /\ rules \in (IF hasRules THEN RuleLists ELSE {<<>>})
  /\ ruleArgs \in RuleArgSet
  /\ libraryVerdict = "none"
  /\ launcherVerdict = "none"
  /\ classpathVerdict = "none"

\* library.rules of the library under evaluation
LibraryRules == IF hasRules THEN Rules(rules) ELSE NoRules

\* the library pipeline evaluates the rule list (libraries-downloader.ts 43-71)
EvaluateForLibrary ==
  /\ rpc = "called"
  /\ libraryVerdict = "none"
  /\ libraryVerdict' = IF isLibraryApplicable(LibraryRules) THEN "applicable" ELSE "skipped"
  /\ UNCHANGED <<rpc, hasRules, rules, ruleArgs, launcherVerdict, classpathVerdict>>
  /\ UNCHANGED notRuleVars

\* the launch materializer evaluates the rule list of an argument entry that
\* has one (game-launcher.ts 292-294, 445-485)
EvaluateForLauncher ==
  /\ rpc = "called"
  /\ hasRules
  /\ launcherVerdict = "none"
  /\ launcherVerdict' = IF evaluateRules(rules, ruleArgs) THEN "allowed" ELSE "denied"
  /\ UNCHANGED <<rpc, hasRules, rules, ruleArgs, libraryVerdict, classpathVerdict>>
  /\ UNCHANGED notRuleVars

\* classpath construction decides whether the library is left out
\* (game-launcher.ts 188-190): the rules are evaluated with no launch parameters
CheckForClasspath ==
  /\ rpc = "called"
  /\ classpathVerdict = "none"
  /\ classpathVerdict' =
       IF LibraryRules.present /\ ~evaluateRules(LibraryRules.list, <<>>)
       THEN "skipped" ELSE "applicable"
  /\ UNCHANGED <<rpc, hasRules, rules, ruleArgs, libraryVerdict, launcherVerdict>>
  /\ UNCHANGED notRuleVars

NextRules ==
  \/ EvaluateForLibrary
  \/ EvaluateForLauncher
  \/ CheckForClasspath

\* =========================================================================
\*  GameLauncher: strings
\* =========================================================================
\* String.prototype.includes
Includes(str, pat) ==
  \E i \in 1..(Len(str) - Len(pat) + 1) : SubSeq(str, i, i + Len(pat) - 1) = pat

\* String.prototype.startsWith('--')
StartsWithDashes(str) == Len(str) > 0 /\ str[1] = "--"

\* Array.prototype.join
RECURSIVE Join(_, _)
Join(strs, sep) ==
  IF Len(strs) = 0 THEN <<>>
  ELSE IF Len(strs) = 1 THEN strs[1]
  ELSE strs[1] \o <<sep>> \o Join(Tail(strs), sep)

\* String.prototype.split(sep), the piece being collected in cur
RECURSIVE SplitFrom(_, _, _)
SplitFrom(str, sep, cur) ==
  IF Len(str) = 0 THEN <<cur>>
  ELSE IF Head(str) = sep THEN <<cur>> \o SplitFrom(Tail(str), sep, <<>>)
  ELSE SplitFrom(Tail(str), sep, Append(cur, Head(str)))
Split(str, sep) == SplitFrom(str, sep, <<>>)

\* String.prototype.replace(new RegExp(escaped pat, 'g'), val)
RECURSIVE ReplaceAll(_, _, _)
ReplaceAll(str, pat, val) ==
  IF Len(str) < Len(pat) THEN str
  ELSE IF SubSeq(str, 1, Len(pat)) = pat
       THEN val \o ReplaceAll(SubSeq(str, Len(pat) + 1, Len(str)), pat, val)
       ELSE <<Head(str)>> \o ReplaceAll(Tail(str), pat, val)

\* /\$\{(.+?)\}/g: the matches of arg from position p on, left to right.
\* A match opens at "${", takes at least one character and closes at the
\* first "}" after it.
Closings(arg, i) == {j \in (i + 2)..Len(arg) : arg[j] = "}"}
Openings(arg, p) == {i \in p..Len(arg) : arg[i] = "${" /\ Closings(arg, i) # {}}
RECURSIVE PlaceholderMatches(_, _)
PlaceholderMatches(arg, p) ==
  IF Openings(arg, p) = {} THEN <<>>
  ELSE LET i == CHOOSE x \in Openings(arg, p) : \A y \in Openings(arg, p) : x <= y
           j == CHOOSE x \in Closings(arg, i) : \A y \in Closings(arg, i) : x <= y
       IN  <<[fullPlaceholder |-> SubSeq(arg, i, j),
              placeholderKey  |-> SubSeq(arg, i + 1, j - 1)]>>
           \o PlaceholderMatches(arg, j + 1)

\* =========================================================================
\*  GameLauncher.replaceArguments
\* =========================================================================
\* lines 393-411
propertyMappings ==
  [auth_player_name  |-> "username",
   version_name      |-> "versionName",
   game_directory    |-> "gameDirectory",
   assets_root       |-> "assetsDirectory",
   assets_index_name |-> "assetIndex",
   auth_uuid         |-> "uuid",
   auth_access_token |-> "accessToken",
   clientid          |-> "clientId",
   auth_xuid         |-> "xuid",
   user_type         |-> "userType",
   version_type      |-> "versionType",
   resolution_width  |-> "width",
   resolution_height |-> "height",
   quickPlayPath          |-> "quickPlayPath",
   quickPlaySingleplayer  |-> "quickPlaySingleplayer",
   quickPlayMultiplayer   |-> "quickPlayMultiplayer",
   quickPlayRealms        |-> "quickPlayRealms"]

\* value?.toString()
ValueToString(x) ==
  CASE x.t = "undefined" -> Undefined
    [] x.t = "array" -> Str(Join(x.v, ","))
    [] OTHER -> Str(x.v)

\* a || fallback
OrElse(x, fallback) == IF Truthy(x) THEN x.v ELSE fallback

\* lines 384-385: path.join(dataDir, 'versions', name, name + '-natives')
NativesDirectory(largs) ==
  LET name == OrElse(Get(largs, "versionName"), <<"unknown">>)
  IN  <<"versions/">> \o name \o <<"/">> \o name \o <<"-natives">>

\* lines 381-423: the replacement value of one placeholder key
ReplacementValue(key, largs, cpath, conf) ==
  CASE key = <<"natives_directory">> -> Str(NativesDirectory(largs))
    [] key = <<"launcher_name">> ->
         Str(OrElse(Get(conf, "launcherName"), <<"minecraft-launcher-sdk">>))
    [] key = <<"launcher_version">> ->
         Str(OrElse(Get(conf, "launcherVersion"), <<"1.0.0">>))
    [] key = <<"classpath">> -> cpath
    [] OTHER ->
         IF Len(key) # 1 THEN Undefined
         ELSE IF key[1] \in DOMAIN largs THEN ValueToString(largs[key[1]])
         ELSE IF key[1] \in DOMAIN propertyMappings
              THEN ValueToString(Get(largs, propertyMappings[key[1]]))
              ELSE Undefined

\* line 425
Resolved(value) == value.t # "undefined" /\ value.v # <<>>

\* lines 377-430: the loop over the matches; result so far, unresolved so far
RECURSIVE ReplaceLoop(_, _, _, _, _, _)
ReplaceLoop(matches, result, unresolved, largs, cpath, conf) ==
  IF Len(matches) = 0 THEN [result |-> result, hasUnresolvedPlaceholder |-> unresolved]
  ELSE LET m == Head(matches)
           value == ReplacementValue(m.placeholderKey, largs, cpath, conf)
       IN  IF Resolved(value)
           THEN ReplaceLoop(Tail(matches), ReplaceAll(result, m.fullPlaceholder, value.v),
                            unresolved, largs, cpath, conf)
           ELSE ReplaceLoop(Tail(matches), result, TRUE, largs, cpath, conf)

\* the result of replaceArguments: null, or a string
Null == [null |-> TRUE, s |-> <<>>]
NotNull(str) == [null |-> FALSE, s |-> str]

\* GameLauncher.replaceArguments(arg, launchArgs, classpath)
replaceArguments(arg, largs, cpath, conf) ==
  LET r == ReplaceLoop(PlaceholderMatches(arg, 1), arg, FALSE, largs, cpath, conf)
  IN  IF r.hasUnresolvedPlaceholder THEN Null ELSE NotNull(r.result)

\* the strings pushed for one processed argument
Pushed(r) == IF r.null THEN <<>> ELSE <<r.s>>

\* =========================================================================
\*  GameLauncher.processComplexArgumentValue / processArgumentArray
\* =========================================================================
\* lines 324-357: the while loop from index i on (1-based)
RECURSIVE ComplexLoop(_, _, _, _, _)
ComplexLoop(valueArray, i, largs, cpath, conf) ==
  IF i > Len(valueArray) THEN <<>>
  ELSE LET current == valueArray[i]
       IN  IF StartsWithDashes(current) /\ i + 1 <= Len(valueArray)
           THEN IF Includes(valueArray[i + 1], <<"${">>)
                THEN LET processedNext ==
                           replaceArguments(valueArray[i + 1], largs, cpath, conf)
                     IN  (IF processedNext.null THEN <<>> ELSE <<current, processedNext.s>>)
                         \o ComplexLoop(valueArray, i + 2, largs, cpath, conf)
                ELSE <<current>> \o ComplexLoop(valueArray, i + 1, largs, cpath, conf)
           ELSE Pushed(replaceArguments(current, largs, cpath, conf))
                \o ComplexLoop(valueArray, i + 1, largs, cpath, conf)

processComplexArgumentValue(valueArray, largs, cpath, conf) ==
  ComplexLoop(valueArray, 1, largs, cpath, conf)

\* an entry of arguments.jvm / arguments.game: a string, or {rules, value}
\* whose value is a string or an array of strings
ArgString(str) == [kind |-> "string", s |-> str, rules |-> <<>>, value |-> <<>>]
ArgRulesString(list, str) == [kind |-> "rules-string", s |-> str, rules |-> list, value |-> <<>>]
ArgRulesArray(list, strs) == [kind |-> "rules-array", s |-> <<>>, rules |-> list, value |-> strs]

\* lines 285-308: what one entry of the array contributes
ProcessArgument(a, largs, cpath, conf) ==
  CASE a.kind = "string" -> Pushed(replaceArguments(a.s, largs, cpath, conf))
    [] a.kind = "rules-string" ->
         IF evaluateRules(a.rules, largs)
         THEN Pushed(replaceArguments(a.s, largs, cpath, conf))
         ELSE <<>>
    [] a.kind = "rules-array" ->
         IF evaluateRules(a.rules, largs)
         THEN processComplexArgumentValue(a.value, largs, cpath, conf)
         ELSE <<>>
    [] OTHER -> <<>>

\* GameLauncher.processArgumentArray(argumentArray, launchArgs, isJvmArgs, classpath)
RECURSIVE processArgumentArray(_, _, _, _)
processArgumentArray(argumentArray, largs, cpath, conf) ==
  IF Len(argumentArray) = 0 THEN <<>>
  ELSE ProcessArgument(Head(argumentArray), largs, cpath, conf)
       \o processArgumentArray(Tail(argumentArray), largs, cpath, conf)

\* =========================================================================
\*  GameLauncher.buildClasspath / buildJvmArguments / buildGameArguments
\* =========================================================================
dataDir == "minecraft-data"

\* path.delimiter
PathDelimiter == IF platform = "win32" THEN ";" ELSE ":"

\* library.downloads?.artifact
NoArtifact == [present |-> FALSE, path |-> <<>>]
Artifact(p) == [present |-> TRUE, path |-> p]

\* a descriptor library: name = <<groupId parts, artifactId, version>>
Library(name, r, natives, artifact) ==
  [name |-> name, rules |-> r, natives |-> natives, artifact |-> artifact]

\* buildClasspath, lines 186-203: the entries one library contributes
ClasspathEntries(library) ==
  IF library.rules.present /\ ~evaluateRules(library.rules.list, <<>>) THEN <<>>
  ELSE IF library.natives THEN <<>>
  ELSE IF library.artifact.present
       THEN <<<<dataDir, "/libraries/">> \o library.artifact.path>>
       ELSE <<>>

RECURSIVE LibraryEntries(_)
LibraryEntries(libraries) ==
  IF Len(libraries) = 0 THEN <<>>
  ELSE ClasspathEntries(Head(libraries)) \o LibraryEntries(Tail(libraries))

\* lines 207-208
mainJarPath(versionName) ==
  <<dataDir, "/versions/">> \o versionName \o <<"/">> \o versionName \o <<".jar">>

\* GameLauncher.buildClasspath(versionJson, versionName)
buildClasspath(vj, versionName) ==
  Join(Append(LibraryEntries(vj.libraries), mainJarPath(versionName)), PathDelimiter)

\* versionJson.arguments.jvm / .game: absent, or an array
NoArgs == [present |-> FALSE, list |-> <<>>]
Args(list) == [present |-> TRUE, list |-> list]

\* an array spread into push(...)
Spread(x) == IF x.t = "array" THEN x.v ELSE <<>>

buildJvmArgumentsCustomLast(vj, largs, cp, conf) ==
  (IF vj.jvm.present
      THEN processArgumentArray(vj.jvm.list, largs, Str(cp), conf)
      ELSE <<>>)
  \o (IF Truthy(largs.minMemory)
      THEN <<<<"-Xmn">> \o largs.minMemory.v \o <<"m">>>> ELSE <<>>)
  \o (IF Truthy(largs.maxMemory)
      THEN <<<<"-Xmx">> \o largs.maxMemory.v \o <<"m">>>> ELSE <<>>)
  \o (IF Truthy(largs.customJvmArgs) THEN Spread(largs.customJvmArgs) ELSE <<>>)

\* GameLauncher.buildJvmArguments(versionJson, launchArgs, classpath)
buildJvmArguments(vj, largs, cp, conf) ==
  (IF Truthy(largs.customJvmArgs) THEN Spread(largs.customJvmArgs) ELSE <<>>)
  \o (IF vj.jvm.present
      THEN processArgumentArray(vj.jvm.list, largs, Str(cp), conf)
      ELSE <<>>)
  \o (IF Truthy(largs.minMemory)
      THEN <<<<"-Xmn">> \o largs.minMemory.v \o <<"m">>>> ELSE <<>>)
  \o (IF Truthy(largs.maxMemory)
      THEN <<<<"-Xmx">> \o largs.maxMemory.v \o <<"m">>>> ELSE <<>>)

\* line 261-262: the tokens of minecraftArguments as argument entries
LegacyArgs(str) == LET toks == Split(str, " ")
                   IN  [i \in 1..Len(toks) |-> ArgString(toks[i])]

\* lines 255-264: the descriptor's share of the game arguments
DescriptorGameArguments(vj, largs, conf) ==
  IF vj.game.present
  THEN processArgumentArray(vj.game.list, largs, Undefined, conf)
  ELSE IF Truthy(vj.minecraftArguments)
       THEN processArgumentArray(LegacyArgs(vj.minecraftArguments.v), largs,
                                 Undefined, conf)
       ELSE <<>>

\* GameLauncher.buildGameArguments(versionJson, launchArgs)
buildGameArguments(vj, largs, conf) ==
  DescriptorGameArguments(vj, largs, conf)
  \o (IF Truthy(largs.customGameArgs) THEN Spread(largs.customGameArgs) ELSE <<>>)

\* generateLaunchCommand, lines 64-80
LaunchArgumentsOf(opts, vj) ==
  [username        |-> opts.username,
   accessToken     |-> opts.accessToken,
   uuid            |-> opts.uuid,
   gameDirectory   |-> opts.gameDirectory,
   assetsDirectory |-> Str(<<dataDir, "/assets">>),
   assetIndex      |-> vj.assetIndex,
   versionName     |-> Str(opts.version),
   versionType     |-> vj.type,
   width           |-> opts.width,
   height          |-> opts.height,
   minMemory       |-> opts.minMemory,
   maxMemory       |-> opts.maxMemory,
   customJvmArgs   |-> opts.vmOptions,
   customGameArgs  |-> opts.gameOptions]

\* =========================================================================
\*  GameLauncher.generateLaunchCommand
\* =========================================================================
\* a placeholder token and a flag token of a descriptor
Ph(key) == <<"${", key, "}">>
Flag(name) == <<"--", name>>

\* the version JSON of versions/<version>/<version>.json, if the file exists
VersionJson(exists, jvm, game, minecraftArguments, libraries) ==
  [exists |-> exists,
   type |-> Str(<<"release">>),
   assetIndex |-> Str(<<"5">>),
   mainClass |-> <<"net.minecraft.client.main.Main">>,
   jvm |-> jvm, game |-> game, minecraftArguments |-> minecraftArguments,
   libraries |-> libraries]

AllowOn(osName) == <<Rule("allow", Os(osName, ""), NoFeatures)>>
AllowIf(feature) == <<Rule("allow", NoOs, Features(feature))>>
AllowAlways == <<Rule("allow", NoOs, NoFeatures)>>

\* arguments.jvm of a current vanilla descriptor
VanillaJvm ==
  <<ArgRulesArray(AllowOn("osx"), <<<<"-XstartOnFirstThread">>>>),
    ArgRulesString(AllowOn("windows"), <<"-XX:HeapDumpPath=dump">>),
    ArgString(<<"-Djava.library.path=", "${", "natives_directory", "}">>),
    ArgString(<<"-Dminecraft.launcher.brand=", "${", "launcher_name", "}">>),
    ArgString(<<"-Dminecraft.launcher.version=", "${", "launcher_version", "}">>),
    ArgString(<<"-cp">>),
    ArgString(Ph("classpath"))>>

\* arguments.jvm of a mod-loader descriptor
LoaderJvm ==
  VanillaJvm \o <<ArgString(<<"-DlibraryDirectory=", "${", "library_directory", "}">>),
                  ArgString(<<"-DFabricMcEmu=net.minecraft.client.main.Main">>)>>

JvmArrays == {VanillaJvm, LoaderJvm}

\* arguments.game: the flag/placeholder pairs every descriptor has
BaseGame ==
  <<ArgString(Flag("username")), ArgString(Ph("auth_player_name")),
    ArgString(Flag("version")), ArgString(Ph("version_name")),
    ArgString(Flag("assetIndex")), ArgString(Ph("assets_index_name"))>>

GatedGame ==
  <<ArgRulesString(AllowIf([is_demo_user |-> TRUE]), Flag("demo")),
    ArgRulesArray(AllowIf([has_custom_resolution |-> TRUE]),
                  <<Flag("width"), Ph("resolution_width"),
                    Flag("height"), Ph("resolution_height")>>)>>

GameArrays ==
  {BaseGame \o GatedGame,
   \* the pairs of a current vanilla descriptor the launcher has no value for
   BaseGame \o <<ArgString(Flag("clientId")), ArgString(Ph("clientid"))>> \o GatedGame,
   \* a gated pair whose value cannot be resolved
   BaseGame \o <<ArgRulesArray(AllowAlways, <<Flag("quickPlayPath"), Ph("quickPlayPath")>>)>>,
   \* a gated array with a flag that carries its value inline
   BaseGame \o <<ArgRulesArray(AllowAlways,
                               <<<<"--", "server=", "${", "server_host", "}">>,
                                 Flag("port"), Ph("server_port")>>)>>}

\* legacy minecraftArguments strings
LegacyStrings ==
  {Flag("username") \o <<" ">> \o Ph("auth_player_name") \o <<" ">>
     \o Flag("version") \o <<" ">> \o Ph("version_name"),
   Flag("username") \o <<" ">> \o Ph("auth_player_name") \o <<" ">>
     \o Flag("userProperties") \o <<" ">> \o Ph("user_properties") \o <<" ">>
     \o Flag("userType") \o <<" ">> \o Ph("user_type")}

\* the (jvm, game, minecraftArguments) parts of the descriptors read
ArgumentSchemas ==
  {<<Args(j), Args(g), Undefined>> : j \in JvmArrays, g \in GameArrays}
  \cup {<<NoArgs, NoArgs, Str(l)>> : l \in LegacyStrings}
  \* a descriptor that carries both formats, and one with arguments.jvm only
  \cup {<<Args(VanillaJvm), Args(BaseGame \o GatedGame), Str(l)>> : l \in LegacyStrings}
  \cup {<<Args(VanillaJvm), NoArgs, Str(l)>> : l \in LegacyStrings}

MavenName(groupId, artifactId, version) ==
  [groupId |-> groupId, artifactId |-> artifactId, version |-> version]

LibrarySet ==
  {Library(MavenName(<<"com", "mojang">>, "brigadier", "1.0"), NoRules, FALSE,
           Artifact(<<"com/mojang/brigadier/1.0/brigadier-1.0.jar">>)),
   Library(MavenName(<<"ca", "weblite">>, "java-objc-bridge", "1.1"), Rules(AllowOn("osx")),
           FALSE, Artifact(<<"ca/weblite/java-objc-bridge/1.1/java-objc-bridge-1.1.jar">>)),
   Library(MavenName(<<"org", "lwjgl">>, "lwjgl-platform", "2.9"), NoRules, TRUE, NoArtifact),
   Library(MavenName(<<"net", "fabricmc">>, "fabric-loader", "0.15"), NoRules, FALSE,
           NoArtifact)}

LibraryLists == SeqsUpTo(LibrarySet, MaxLibs)
VanillaLibraries ==
  <<Library(MavenName(<<"com", "mojang">>, "brigadier", "1.0"), NoRules, FALSE,
            Artifact(<<"com/mojang/brigadier/1.0/brigadier-1.0.jar">>))>>

\* LaunchOptions (types/index.ts 682-742)
LaunchOptions(size, memory, vmOptions, gameOptions) ==
  [version |-> <<"1.20.1">>, javaPath |-> <<"java">>,
   username |-> Str(<<"Steve">>), accessToken |-> Str(<<"token">>),
   uuid |-> Str(<<"uuid">>), gameDirectory |-> Str(<<"game">>),
   width |-> size[1], height |-> size[2],
   minMemory |-> memory[1], maxMemory |-> memory[2],
   vmOptions |-> vmOptions, gameOptions |-> gameOptions]

DefaultOptions == LaunchOptions(<<Undefined, Undefined>>, <<Undefined, Undefined>>,
                                Undefined, Undefined)

OptionSet ==
  {LaunchOptions(size, memory, vm, game) :
     size \in {<<Undefined, Undefined>>, <<Num("854"), Num("480")>>,
               <<Num("854"), Undefined>>, <<Undefined, Num("480")>>},
     memory \in {<<Undefined, Undefined>>, <<Num("512"), Num("2048")>>},
     vm \in {Undefined, Arr(<<<<"-XX:+UseG1GC">>>>),
             Arr(<<<<"-Dlog.dir=", "${", "log_dir", "}">>>>)},
     game \in {Undefined, Arr(<<<<"--", "fullscreen">>>>)}}

Configures ==
  {[launcherName |-> Undefined, launcherVersion |-> Undefined],
   [launcherName |-> Str(<<"Yumeri">>), launcherVersion |-> Str(<<"2.0">>)]}

\* the calls made: every library list under the default options, every
\* argument schema under every option set, and a version that is not installed
LaunchInputs ==
  {<<VersionJson(TRUE, Args(VanillaJvm), Args(BaseGame), Undefined, l), DefaultOptions>> :
     l \in LibraryLists}
  \cup {<<VersionJson(TRUE, a[1], a[2], a[3], VanillaLibraries), o>> :
          a \in ArgumentSchemas, o \in OptionSet}
  \cup {<<VersionJson(FALSE, NoArgs, NoArgs, Undefined, <<>>), DefaultOptions>>}
  \* a player name and a Java path that contain a space
  \cup {<<VersionJson(TRUE, Args(VanillaJvm), Args(BaseGame), Undefined, VanillaLibraries),
          o>> : o \in {[DefaultOptions EXCEPT !.username = Str(<<"Steve", " ", "Jobs">>)],
                       [DefaultOptions EXCEPT !.javaPath = <<"Program", " ", "Files/java">>]}}

InitLaunch ==
  /\ FileIdle
  /\ BatchIdle
  /\ RulesIdle
  /\ InstallIdle
  /\ CacheIdle
  /\ AssetIdle
  /\ NativeIdle
  /\ ClientIdle
  /\ LifecycleIdle
  /\ MergeIdle
  /\ ResolverIdle
  /\ platform \in Platforms
  /\ arch \in Archs
  /\ lpc = "called"
  /\ \E input \in LaunchInputs : versionJson = input[1] /\ options = input[2]
  /\ configure \in Configures
  /\ classpath = <<>> /\ launchArgs = <<>> /\ jvmArgs = <<>> /\ gameArgs = <<>>
  /\ args = <<>> /\ fullCommand = <<>> /\ spawned = <<>>

\* lines 45-48: the version JSON does not exist; the call throws
VersionJsonMissing ==
  /\ lpc = "called"
  /\ ~versionJson.exists
  /\ lpc' = "threw"
  /\ UNCHANGED <<versionJson, options, configure, classpath, launchArgs,
                 jvmArgs, gameArgs, args, fullCommand>>
  /\ UNCHANGED spawned
  /\ UNCHANGED notLaunchVars

\* line 50
ReadVersionJson ==
  /\ lpc = "called"
  /\ versionJson.exists
  /\ lpc' = "read"
  /\ UNCHANGED <<versionJson, options, configure, classpath, launchArgs,
                 jvmArgs, gameArgs, args, fullCommand>>
  /\ UNCHANGED spawned
  /\ UNCHANGED notLaunchVars

\* line 57
BuildClasspath ==
  /\ lpc = "read"
  /\ classpath' = buildClasspath(versionJson, options.version)
  /\ lpc' = "classpath"
  /\ UNCHANGED <<versionJson, options, configure, launchArgs,
                 jvmArgs, gameArgs, args, fullCommand>>
  /\ UNCHANGED spawned
  /\ UNCHANGED notLaunchVars

\* lines 64-83
BuildJvmArguments ==
  /\ lpc = "classpath"
  /\ launchArgs' = LaunchArgumentsOf(options, versionJson)
  /\ jvmArgs' = buildJvmArguments(versionJson, launchArgs', classpath, configure)
  /\ lpc' = "jvm"
  /\ UNCHANGED <<versionJson, options, configure, classpath, gameArgs, args, fullCommand>>
  /\ UNCHANGED spawned
  /\ UNCHANGED notLaunchVars

\* line 90
BuildGameArguments ==
  /\ lpc = "jvm"
  /\ gameArgs' = buildGameArguments(versionJson, launchArgs, configure)
  /\ lpc' = "game"
  /\ UNCHANGED <<versionJson, options, configure, classpath, launchArgs, jvmArgs,
                 args, fullCommand>>
  /\ UNCHANGED spawned
  /\ UNCHANGED notLaunchVars

\* lines 97-113
ReturnCommand ==
  /\ lpc = "game"
  /\ args' = jvmArgs \o <<versionJson.mainClass>> \o gameArgs
  /\ fullCommand' = options.javaPath \o <<" ">> \o Join(args', " ")
  /\ lpc' = "done"
  /\ UNCHANGED <<versionJson, options, configure, classpath, launchArgs, jvmArgs, gameArgs>>
  /\ UNCHANGED spawned
  /\ UNCHANGED notLaunchVars

\* launchGame, lines 132-139: the command generateLaunchCommand returned is
\* split at every space; the first piece is the program, the rest its argv
SpawnGame ==
  /\ lpc = "done"
  /\ spawned' = [javaPath |-> Head(Split(fullCommand, " ")),
                 args |-> Tail(Split(fullCommand, " "))]
  /\ lpc' = "spawned"
  /\ UNCHANGED <<versionJson, options, configure, classpath, launchArgs, jvmArgs,
                 gameArgs, args, fullCommand>>
  /\ UNCHANGED notLaunchVars

NextLaunch ==
  \/ VersionJsonMissing
  \/ ReadVersionJson
  \/ BuildClasspath
  \/ BuildJvmArguments
  \/ BuildGameArguments
  \/ ReturnCommand
  \/ SpawnGame

\* =========================================================================
\*  GameLauncher.replaceArguments on one token, with launch parameters that
\*  carry free-form keys (types/index.ts 640: [key: string]: ...)
\* =========================================================================
\* lines 383-390: the placeholder keys with a fixed meaning
BuiltInKeys == {"natives_directory", "launcher_name", "launcher_version", "classpath"}

\* the declared fields of LaunchArguments the parameters below use
DeclaredFields == {"username", "versionName"}

\* free-form keys: named like a built-in, like an alias, or like neither
ExtensionKeys ==
  {"natives_directory", "launcher_name", "classpath", "auth_player_name",
   "version_name", "server_host"}

\* the placeholder keys of the tokens resolved
ResolvedKeys ==
  BuiltInKeys \cup {"auth_player_name", "version_name", "server_host", "server_port"}

\* the value a free-form key carries
ExtensionValue(key) == Str(<<"extra:", key>>)

\* launch parameters: declared fields and a set of free-form keys
ResolverLaunchArguments ==
  {[username |-> u, versionName |-> Str(<<"1.20.1">>)]
     @@ [key \in keys |-> ExtensionValue(key)] :
     u \in {Str(<<"Steve">>), Undefined}, keys \in SUBSET ExtensionKeys}

InitResolver ==
  /\ FileIdle
  /\ BatchIdle
  /\ HostIdle
  /\ RulesIdle
  /\ LaunchIdle
  /\ InstallIdle
  /\ CacheIdle
  /\ AssetIdle
  /\ NativeIdle
  /\ ClientIdle
  /\ LifecycleIdle
  /\ MergeIdle
  /\ resolverPc = "called"
  /\ resolverArg \in {Ph(key) : key \in ResolvedKeys}
  /\ resolverLaunchArgs \in ResolverLaunchArguments
  /\ resolverClasspath \in {Undefined, Str(<<"libraries/brigadier-1.0.jar">>)}
  /\ resolverConfigure \in Configures
  /\ resolverResult = <<>>

\* lines 369-433
ReplaceArguments ==
  /\ resolverPc = "called"
  /\ resolverResult' = replaceArguments(resolverArg, resolverLaunchArgs,
                                        resolverClasspath, resolverConfigure)
  /\ resolverPc' = "done"
  /\ UNCHANGED <<resolverArg, resolverLaunchArgs, resolverClasspath, resolverConfigure>>
  /\ UNCHANGED notResolverVars

NextResolver == ReplaceArguments

\* the launch parameters without their free-form keys
DeclaredOnly(largs) == [key \in DOMAIN largs \cap DeclaredFields |-> largs[key]]

\* the key of the token's placeholder
ResolverKey == resolverArg[2]

\* what replaceArguments returns for a token that is one placeholder whose
\* replacement value is value
ResultOf(value) == IF Resolved(value) THEN NotNull(value.v) ELSE Null

\* C38: a placeholder is resolved from the built-ins first, then from the
\* parameter aliases, and only last from an exact key match among the
\* free-form keys: for a built-in or alias placeholder the result is the one
\* obtained without any free-form key, and any other placeholder gets the
\* value of the free-form key of its name.
C38_ExtensionKeysConsultedLast ==
  resolverPc = "done" =>
    IF ResolverKey \in BuiltInKeys \cup DOMAIN propertyMappings
    THEN resolverResult =
           replaceArguments(resolverArg, DeclaredOnly(resolverLaunchArgs),
                            resolverClasspath, resolverConfigure)
    ELSE resolverResult =
           ResultOf(ValueToString(Get(resolverLaunchArgs, ResolverKey)))

\* the same for the built-ins alone, and for every other placeholder that is
\* not an alias
BuiltInsBeforeExtensionKeys ==
  (resolverPc = "done" /\ ResolverKey \notin DOMAIN propertyMappings) =>
    IF ResolverKey \in BuiltInKeys
    THEN resolverResult =
           replaceArguments(resolverArg, DeclaredOnly(resolverLaunchArgs),
                            resolverClasspath, resolverConfigure)
    ELSE resolverResult =
           ResultOf(ValueToString(Get(resolverLaunchArgs, ResolverKey)))

\* a free-form key named like a built-in is there and the built-in is used
BuiltInUsedBesideExtensionKey ==
  /\ resolverPc = "done"
  /\ ResolverKey = "launcher_name"
  /\ "launcher_name" \in DOMAIN resolverLaunchArgs
  /\ resolverConfigure.launcherName = Undefined
  /\ resolverResult = NotNull(<<"minecraft-launcher-sdk">>)

\* a free-form key named like an alias placeholder takes the alias's place
ExtensionKeyOverridesAlias ==
  /\ resolverPc = "done"
  /\ ResolverKey = "auth_player_name"
  /\ resolverLaunchArgs["username"] = Str(<<"Steve">>)
  /\ "auth_player_name" \in DOMAIN resolverLaunchArgs
  /\ resolverResult = NotNull(ExtensionValue("auth_player_name").v)

\* =========================================================================
\*  FabricInstaller.mergeFabricConfig / ForgeInstaller.mergeForgeConfig
\* =========================================================================
\* json.libraries: absent, or an array
NoLibraries == [present |-> FALSE, list |-> <<>>]
Libraries(list) == [present |-> TRUE, list |-> list]

\* json.arguments: absent, or an object whose jvm and game may be absent
NoArguments == [present |-> FALSE, jvm |-> NoArgs, game |-> NoArgs]
Arguments(jvm, game) == [present |-> TRUE, jvm |-> jvm, game |-> game]

\* a version JSON as the installers read and write it
Descriptor(id, mainClass, libraries, arguments, minecraftArguments) ==
  [id |-> id, mainClass |-> mainClass, libraries |-> libraries, arguments |-> arguments,
   minecraftArguments |-> minecraftArguments, inheritsFrom |-> Undefined,
   jar |-> Undefined, fabricVersion |-> Undefined, forgeVersion |-> Undefined]

\* part_001 lines 373-375: merged.mainClass
MergedMainClass(originalJson, overlay) ==
  IF Truthy(overlay.mainClass) THEN overlay.mainClass ELSE originalJson.mainClass

\* part_001 lines 378-380: merged.libraries
MergedLibrariesOverlayFirst(originalJson, overlay) ==
  IF overlay.libraries.present
  THEN Libraries(overlay.libraries.list \o originalJson.libraries.list)
  ELSE originalJson.libraries

MergedLibrariesNoDefault(originalJson, overlay) ==
  IF overlay.libraries.present /\ originalJson.libraries.present
  THEN Libraries(originalJson.libraries.list \o overlay.libraries.list)
  ELSE originalJson.libraries

MergedLibraries(originalJson, overlay) ==
  IF overlay.libraries.present
  THEN Libraries(originalJson.libraries.list \o overlay.libraries.list)
  ELSE originalJson.libraries

\* part_001 lines 388-395: merged.arguments.jvm / .game
MergedArgs(mine, theirs) ==
  IF theirs.present THEN Args(mine.list \o theirs.list) ELSE mine

\* part_001 lines 383-396: merged.arguments
MergedArguments(originalJson, overlay) ==
  IF overlay.arguments.present
  THEN Arguments(MergedArgs(originalJson.arguments.jvm, overlay.arguments.jvm),
                 MergedArgs(originalJson.arguments.game, overlay.arguments.game))
  ELSE originalJson.arguments

\* part_001 lines 399-401: merged.minecraftArguments
MergedMinecraftArguments(originalJson, overlay) ==
  IF Truthy(overlay.minecraftArguments) /\ ~MergedArguments(originalJson, overlay).present
  THEN overlay.minecraftArguments
  ELSE originalJson.minecraftArguments

\* a || b on two optional strings
Either(a, b) == IF Truthy(a) THEN a ELSE b

\* FabricInstaller.mergeFabricConfig(originalJson, fabricJson)
mergeFabricConfig(originalJson, fabricJson) ==
  [id |-> Either(fabricJson.id, originalJson.id),
   mainClass |-> MergedMainClass(originalJson, fabricJson),
   libraries |-> MergedLibraries(originalJson, fabricJson),
   arguments |-> MergedArguments(originalJson, fabricJson),
   minecraftArguments |-> MergedMinecraftArguments(originalJson, fabricJson),
   inheritsFrom |-> Either(fabricJson.inheritsFrom, originalJson.inheritsFrom),
   jar |-> Either(fabricJson.jar, originalJson.jar),
   fabricVersion |-> fabricJson.id,
   forgeVersion |-> originalJson.forgeVersion]

\* ForgeInstaller.mergeForgeConfig(originalJson, forgeJson)
mergeForgeConfig(originalJson, forgeJson) ==
  [id |-> originalJson.id,
   mainClass |-> MergedMainClass(originalJson, forgeJson),
   libraries |-> MergedLibraries(originalJson, forgeJson),
   arguments |-> MergedArguments(originalJson, forgeJson),
   minecraftArguments |-> MergedMinecraftArguments(originalJson, forgeJson),
   inheritsFrom |-> Either(forgeJson.inheritsFrom, originalJson.inheritsFrom),
   jar |-> Either(forgeJson.jar, originalJson.jar),
   fabricVersion |-> originalJson.fabricVersion,
   forgeVersion |-> forgeJson.id]

\* =========================================================================
\*  FabricInstaller.installFabric / ForgeInstaller.installForge
\* =========================================================================
\* a file that holds JSON: absent, or its document
NoJson == [present |-> FALSE, doc |-> <<>>]
Json(doc) == [present |-> TRUE, doc |-> doc]
\* a file that holds a prefix of a serialized document: fs.writeJson opens
\* the file for writing, which empties it, and then writes the text
PartialJson == [present |-> TRUE, doc |-> <<>>]

\* versions/<name>: whether the directory exists, its <name>.json, and the
\* content of its <name>.jar (NoJar: no such file)
NoJar == "none"
ClientJar == "client jar"
ForgeJar == "forge jar"
VersionEntry(dir, json, jar) == [dir |-> dir, json |-> json, jar |-> jar]
NoVersion == VersionEntry(FALSE, NoJson, NoJar)

\* FabricInstallResult / ForgeInstallResult
NoResult == [returned |-> FALSE, success |-> FALSE, error |-> ""]
SuccessResultWrongly(msg) == [returned |-> TRUE, success |-> TRUE, error |-> ""]
FailureResult(msg) == [returned |-> TRUE, success |-> FALSE, error |-> msg]
SuccessResult == [returned |-> TRUE, success |-> TRUE, error |-> ""]

\* what the first call of the sequence left behind
NotYet == [taken |-> FALSE, success |-> FALSE, json |-> NoJson]

VersionNames == {"1.20.1", "1.19.4"}
BaseLibraryNames == {"com.mojang:brigadier:1.0"}
OverlayLibraryNames == {"net.fabricmc:fabric-loader:0.15", "org.ow2.asm:asm:9.6"}

\* the descriptors of installed versions
BaseDescriptors ==
  {Descriptor(Str(<<"1.20.1">>), Str(<<"net.minecraft.client.main.Main">>), l, a[1], a[2]) :
     l \in {NoLibraries} \cup {Libraries(x) : x \in SeqsUpTo(BaseLibraryNames, MaxEntries)},
     a \in {<<Arguments(Args(<<"-cp">>), Args(<<"--username">>)), Undefined>>,
            <<NoArguments, Str(<<"--username">>)>>}}

\* the loader profiles served (Fabric) or produced by the installer (Forge)
OverlayDescriptors ==
  {Descriptor(Str(<<"loader-1.20.1">>), m, l, a[1], a[2]) :
     m \in {Undefined, Str(<<"net.fabricmc.loader.impl.launch.knot.KnotClient">>)},
     l \in {NoLibraries} \cup {Libraries(x) : x \in SeqsUpTo(OverlayLibraryNames, MaxEntries)},
     a \in {<<NoArguments, Undefined>>,
            <<NoArguments, Str(<<"--tweakClass">>)>>,
            <<Arguments(Args(<<"-DFabricMcEmu">>), NoArgs), Undefined>>,
            <<Arguments(Args(<<"-Dforge">>), Args(<<"--launchTarget">>)), Undefined>>}}

\* the states of one directory under versions/
VersionEntries ==
  {NoVersion, VersionEntry(TRUE, NoJson, NoJar)}
  \cup {VersionEntry(TRUE, Json(d), ClientJar) : d \in BaseDescriptors}

InitInstall ==
  /\ FileIdle
  /\ BatchIdle
  /\ HostIdle
  /\ RulesIdle
  /\ LaunchIdle
  /\ CacheIdle
  /\ AssetIdle
  /\ NativeIdle
  /\ ClientIdle
  /\ LifecycleIdle
  /\ MergeIdle
  /\ ResolverIdle
  /\ ipc = "called"
  /\ loader \in {"fabric", "forge"}
  /\ targetVersionName = "1.20.1"
  /\ overlayJson \in OverlayDescriptors
  /\ versionsDir \in [VersionNames -> VersionEntries]
  /\ versionsDir["1.19.4"] \in {NoVersion, VersionEntry(TRUE, NoJson, NoJar)}
  /\ versionsDir0 = versionsDir
  /\ tempDir = FALSE
  /\ originalVersionJson = NoJson
  /\ mergedJson = NoJson
  /\ installResult = NoResult
  /\ installs = 0
  /\ descriptorAfterFirst = NotYet

\* the call returns result: what every return does
Return(result) ==
  /\ ipc' = "returned"
  /\ installResult' = result
  /\ installs' = installs + 1
  /\ descriptorAfterFirst' =
       IF installs = 0
       THEN [taken |-> TRUE, success |-> result.success,
             json |-> versionsDir[targetVersionName].json]
       ELSE descriptorAfterFirst

\* part_001 line 248 / part_002 line 219: the profile JSON or the installer
\* JAR is downloaded into downloads/
DownloadLoader ==
  /\ ipc = "called"
  /\ ipc' = "check"
  /\ UNCHANGED <<loader, targetVersionName, overlayJson, versionsDir, versionsDir0, tempDir,
                 originalVersionJson, mergedJson, installResult, installs,
                 descriptorAfterFirst>>
  /\ UNCHANGED notInstallVars

\* the download throws; the catch returns a failure
DownloadLoaderFails ==
  /\ ipc = "called"
  /\ Return(FailureResult("download"))
  /\ UNCHANGED <<loader, targetVersionName, overlayJson, versionsDir, versionsDir0, tempDir,
                 originalVersionJson, mergedJson>>
  /\ UNCHANGED notInstallVars

\* part_001 lines 258-260 / part_002 lines 234-236
TargetDirMissing ==
  /\ ipc = "check"
  /\ ~versionsDir[targetVersionName].dir
  /\ Return(FailureResult("no version directory"))
  /\ UNCHANGED <<loader, targetVersionName, overlayJson, versionsDir, versionsDir0, tempDir,
                 originalVersionJson, mergedJson>>
  /\ UNCHANGED notInstallVars

\* part_001 lines 263-266 / part_002 lines 239-242
OriginalJsonMissing ==
  /\ ipc = "check"
  /\ versionsDir[targetVersionName].dir
  /\ ~versionsDir[targetVersionName].json.present
  /\ Return(FailureResult("no version JSON"))
  /\ UNCHANGED <<loader, targetVersionName, overlayJson, versionsDir, versionsDir0, tempDir,
                 originalVersionJson, mergedJson>>
  /\ UNCHANGED notInstallVars

\* part_001 line 269 / part_002 line 245: fs.readJson throws on a file that
\* does not parse; the catch returns a failure
OriginalJsonUnreadable ==
  /\ ipc = "check"
  /\ versionsDir[targetVersionName].dir
  /\ versionsDir[targetVersionName].json = PartialJson
  /\ Return(FailureResult("unreadable version JSON"))
  /\ UNCHANGED <<loader, targetVersionName, overlayJson, versionsDir, versionsDir0, tempDir,
                 originalVersionJson, mergedJson>>
  /\ UNCHANGED notInstallVars

\* part_001 line 269 / part_002 line 245
ReadOriginalJson ==
  /\ ipc = "check"
  /\ versionsDir[targetVersionName].dir
  /\ versionsDir[targetVersionName].json.present
  /\ versionsDir[targetVersionName].json # PartialJson
  /\ originalVersionJson' = versionsDir[targetVersionName].json
  /\ ipc' = IF loader = "fabric" THEN "merge" ELSE "temp"
  /\ UNCHANGED <<loader, targetVersionName, overlayJson, versionsDir, versionsDir0, tempDir,
                 mergedJson, installResult, installs, descriptorAfterFirst>>
  /\ UNCHANGED notInstallVars

\* part_001 lines 272-276: merge and write versions/<name>/<name>.json
MergeFabric ==
  /\ ipc = "merge"
  /\ loader = "fabric"
  /\ mergedJson' = Json(mergeFabricConfig(originalVersionJson.doc, overlayJson))
  /\ versionsDir' = [versionsDir EXCEPT ![targetVersionName].json = mergedJson']
  /\ ipc' = "libraries"
  /\ UNCHANGED <<loader, targetVersionName, overlayJson, versionsDir0, tempDir,
                 originalVersionJson, installResult, installs, descriptorAfterFirst>>
  /\ UNCHANGED notInstallVars

\* part_001 line 276 / part_002 line 280: fs.writeJson(targetJsonPath,
\* mergedJson) fails after it has opened the file (the disk is full, the
\* write is cut short): the file holds a prefix of the text; installFabric's
\* catch returns a failure, installForge goes through its finally block
WriteJsonFails ==
  /\ \/ ipc = "merge" /\ loader = "fabric"
     \/ ipc = "installer" /\ loader = "forge"
  /\ mergedJson' = Json(IF loader = "fabric"
                        THEN mergeFabricConfig(originalVersionJson.doc, overlayJson)
                        ELSE mergeForgeConfig(originalVersionJson.doc, overlayJson))
  /\ versionsDir' = [versionsDir EXCEPT ![targetVersionName].json = PartialJson]
  /\ IF loader = "fabric"
     THEN /\ ipc' = "returned"
          /\ installResult' = FailureResult("write")
          /\ installs' = installs + 1
          /\ descriptorAfterFirst' =
               IF installs = 0
               THEN [taken |-> TRUE, success |-> FALSE, json |-> PartialJson]
               ELSE descriptorAfterFirst
     ELSE /\ installResult' = FailureResult("write")
          /\ ipc' = "finally"
          /\ UNCHANGED <<installs, descriptorAfterFirst>>
  /\ UNCHANGED <<loader, targetVersionName, overlayJson, versionsDir0, tempDir,
                 originalVersionJson>>
  /\ UNCHANGED notInstallVars

\* part_001 lines 283-351: the Fabric libraries and the Fabric API are
\* downloaded into libraries/ and mods/ (failures are logged), then success
FabricLibraries ==
  /\ ipc = "libraries"
  /\ loader = "fabric"
  /\ Return(SuccessResult)
  /\ UNCHANGED <<loader, targetVersionName, overlayJson, versionsDir, versionsDir0, tempDir,
                 originalVersionJson, mergedJson>>
  /\ UNCHANGED notInstallVars

\* part_002 lines 248-249: temp/forge-install-<now> is created
CreateTempDir ==
  /\ ipc = "temp"
  /\ tempDir' = TRUE
  /\ ipc' = "installer"
  /\ UNCHANGED <<loader, targetVersionName, overlayJson, versionsDir, versionsDir0,
                 originalVersionJson, mergedJson, installResult, installs,
                 descriptorAfterFirst>>
  /\ UNCHANGED notInstallVars

ForgeInstallerFailsAfterWrite ==
  /\ ipc = "installer"
  /\ versionsDir' = [versionsDir EXCEPT
                       ![targetVersionName].json =
                         Json(mergeForgeConfig(originalVersionJson.doc, overlayJson))]
  /\ installResult' = FailureResult("installer")
  /\ ipc' = "finally"
  /\ UNCHANGED <<loader, targetVersionName, overlayJson, versionsDir0, tempDir,
                 originalVersionJson, mergedJson, installs, descriptorAfterFirst>>
  /\ UNCHANGED notInstallVars

\* part_002 lines 253-271, 329-389: the installer cannot be spawned, exits
\* with a non-zero code, or leaves no forge version
ForgeInstallerFails ==
  /\ ipc = "installer"
  /\ installResult' = FailureResult("installer")
  /\ ipc' = "finally"
  /\ UNCHANGED <<loader, targetVersionName, overlayJson, versionsDir, versionsDir0, tempDir,
                 originalVersionJson, mergedJson, installs, descriptorAfterFirst>>
  /\ UNCHANGED notInstallVars

\* part_002 lines 273-295: merge, write the JSON, copy the JAR if there is
\* one, download the libraries
MergeForge(jarProduced) ==
  /\ ipc = "installer"
  /\ mergedJson' = Json(mergeForgeConfig(originalVersionJson.doc, overlayJson))
  /\ versionsDir' = [versionsDir EXCEPT
                       ![targetVersionName].json = mergedJson',
                       ![targetVersionName].jar = IF jarProduced THEN ForgeJar ELSE @]
  /\ installResult' = SuccessResult
  /\ ipc' = "finally"
  /\ UNCHANGED <<loader, targetVersionName, overlayJson, versionsDir0, tempDir,
                 originalVersionJson, installs, descriptorAfterFirst>>
  /\ UNCHANGED notInstallVars

\* part_002 lines 304-311, 313-319: the temporary directory is removed (a
\* failure to remove it is logged), and the call returns
RemoveTempDir(removed) ==
  /\ ipc = "finally"
  /\ tempDir' = ~removed
  /\ Return(installResult)
  /\ UNCHANGED <<loader, targetVersionName, overlayJson, versionsDir, versionsDir0,
                 originalVersionJson, mergedJson>>
  /\ UNCHANGED notInstallVars

\* the same call is made again
InstallAgain ==
  /\ ipc = "returned"
  /\ installs < MaxInstalls
  /\ ipc' = "called"
  /\ versionsDir0' = versionsDir
  /\ originalVersionJson' = NoJson
  /\ mergedJson' = NoJson
  /\ installResult' = NoResult
  /\ UNCHANGED <<loader, targetVersionName, overlayJson, versionsDir, tempDir, installs,
                 descriptorAfterFirst>>
  /\ UNCHANGED notInstallVars

NextInstall ==
  \/ DownloadLoader
  \/ DownloadLoaderFails
  \/ TargetDirMissing
  \/ OriginalJsonMissing
  \/ OriginalJsonUnreadable
  \/ ReadOriginalJson
  \/ MergeFabric
  \/ WriteJsonFails
  \/ FabricLibraries
  \/ CreateTempDir
  \/ ForgeInstallerFails
  \/ \E jarProduced \in BOOLEAN : MergeForge(jarProduced)
  \/ \E removed \in BOOLEAN : RemoveTempDir(removed)
  \/ InstallAgain

\* what the installer in use makes of a descriptor and the overlay
MergedByLoader(originalJson) ==
  IF loader = "fabric" THEN mergeFabricConfig(originalJson, overlayJson)
  ELSE mergeForgeConfig(originalJson, overlayJson)

\* C36: during installFabric and installForge the descriptor file
\* versions/<name>/<name>.json is replaced atomically: in every state, a
\* write that failed midway included, the file holds the complete descriptor
\* it held when the call began or the complete merged descriptor.
C36_DescriptorReplacedAtomically ==
  LET before == versionsDir0[targetVersionName].json
      held == versionsDir[targetVersionName].json
  IN  (ipc # "off" /\ before.present /\ before # PartialJson) =>
        \/ held = before
        \/ held = Json(MergedByLoader(before.doc))

\* the same while no write has failed
DescriptorWholeUnlessWriteFailed ==
  LET before == versionsDir0[targetVersionName].json
      held == versionsDir[targetVersionName].json
  IN  (ipc # "off" /\ before.present /\ before # PartialJson
         /\ installResult.error # "write") =>
        \/ held = before
        \/ held = Json(MergedByLoader(before.doc))

\* installForge has returned from a call in which it created its temporary
\* directory: with success, or with a failure raised inside the try block
ReturnedAfterTempDir ==
  /\ ipc = "returned" /\ loader = "forge"
  /\ installResult.success \/ installResult.error \in {"installer", "write"}

\* C40: once installForge has created its temporary install directory, the
\* directory no longer exists when installForge returns, on every path:
\* success, installer failure, missing installer output, descriptor write
\* failure, library download failure.
C40_TempDirGoneAtReturn == ReturnedAfterTempDir => ~tempDir

\* =========================================================================
\*  VersionManager.getVersionManifest / getVersionInfo
\* =========================================================================
\* 24 * 60 * 60 * 1000 ms, in hours
Day == 24

\* a cache file: absent, not parseable, or a document written at some time
NoCacheFile == [state |-> "absent", time |-> 0, doc |-> ""]
CorruptCacheFile == [state |-> "corrupt", time |-> 0, doc |-> ""]
CacheFile(time, doc) == [state |-> "ok", time |-> time, doc |-> doc]

\* version-manager.ts line 52, with <= for <
CacheFreshInclusive(file, time) == file.state = "ok" /\ time - file.time <= Day

\* version-manager.ts lines 46-52: the cache file exists, parses and is
\* younger than 24 hours
CacheFresh(file, time) == file.state = "ok" /\ time - file.time < Day

\* manifest.versions.find(v => v.id === versionId)
ManifestVersions(manifest) ==
  IF manifest = "m1" THEN {"1.20.1"} ELSE {"1.20.1", "1.20.2"}

VersionIds == {"1.20.1", "1.20.2", "9.9"}
ServedManifests == {"m2"}
ServedVersionInfos == {"i2"}

\* the cacheTime values on disk when the first call is made (0: no cacheTime)
CacheTimes == {0} \cup ((MaxClock - Day - 2)..(MaxClock - Day))

NoCacheResult == [kind |-> "none", doc |-> ""]
Returned(doc) == [kind |-> "returned", doc |-> doc]
Thrown == [kind |-> "thrown", doc |-> ""]

InitCache ==
  /\ FileIdle
  /\ BatchIdle
  /\ HostIdle
  /\ RulesIdle
  /\ LaunchIdle
  /\ InstallIdle
  /\ AssetIdle
  /\ NativeIdle
  /\ ClientIdle
  /\ LifecycleIdle
  /\ MergeIdle
  /\ ResolverIdle
  /\ cpc = "idle"
  /\ now = Day + 1
  /\ versionManifest \in {NoJson, Json("m1")}
  /\ manifestFile \in {NoCacheFile, CorruptCacheFile} \cup {CacheFile(t, "m1") : t \in CacheTimes}
  /\ \E memory \in {NoJson, Json("i1")} :
       versionCache = [id \in VersionIds |-> IF id = "1.20.1" THEN memory ELSE NoJson]
  /\ \E file \in {NoCacheFile, CorruptCacheFile} \cup {CacheFile(t, "i1") : t \in CacheTimes} :
       versionFiles = [id \in VersionIds |-> IF id = "1.20.1" THEN file ELSE NoCacheFile]
  /\ cacheCall = [op |-> "none", versionId |-> "", forceRefresh |-> FALSE]
  /\ atCall = <<>>
  /\ caller = "none"
  /\ networkLog = <<>>
  /\ cacheResult = NoCacheResult
  /\ cacheCalls = 0

\* the state a call finds
Snapshot ==
  [now |-> now, versionManifest |-> versionManifest, manifestFile |-> manifestFile,
   versionCache |-> versionCache, versionFiles |-> versionFiles]

\* getVersionManifest(forceRefresh) is called
CallGetVersionManifest(forceRefresh) ==
  /\ cpc = "idle"
  /\ cacheCalls < MaxCacheCalls
  /\ cacheCall' = [op |-> "manifest", versionId |-> "", forceRefresh |-> forceRefresh]
  /\ atCall' = Snapshot
  /\ caller' = "user"
  /\ networkLog' = <<>>
  /\ cacheResult' = NoCacheResult
  /\ cacheCalls' = cacheCalls + 1
  /\ cpc' = "manifest"
  /\ UNCHANGED <<now, versionManifest, manifestFile, versionCache, versionFiles>>
  /\ UNCHANGED notCacheVars

\* forceRefresh of the getVersionManifest call in progress; getVersionInfo
\* calls it without the argument (line 139)
ManifestForce == caller = "user" /\ cacheCall.forceRefresh

\* getVersionManifest returns manifest, to the user or to getVersionInfo
ManifestReturns(manifest) ==
  IF caller = "user"
  THEN cpc' = "idle" /\ cacheResult' = Returned(manifest)
  ELSE cpc' = "info-find" /\ cacheResult' = cacheResult

\* lines 38-40
ManifestFromMemory ==
  /\ cpc = "manifest"
  /\ versionManifest.present /\ ~ManifestForce
  /\ ManifestReturns(versionManifest.doc)
  /\ UNCHANGED <<now, versionManifest, manifestFile, versionCache, versionFiles, cacheCall, atCall, caller, networkLog, cacheCalls>>
  /\ UNCHANGED notCacheVars

\* lines 45-57: the disk cache is fresh
ManifestFromDisk ==
  /\ cpc = "manifest"
  /\ ~(versionManifest.present /\ ~ManifestForce)
  /\ ~ManifestForce /\ CacheFresh(manifestFile, now)
  /\ versionManifest' = Json(manifestFile.doc)
  /\ ManifestReturns(manifestFile.doc)
  /\ UNCHANGED <<now, manifestFile, versionCache, versionFiles, cacheCall, atCall, caller, networkLog, cacheCalls>>
  /\ UNCHANGED notCacheVars

\* lines 45-60: forced, or the disk cache is absent, unreadable or expired
ManifestCacheMiss ==
  /\ cpc = "manifest"
  /\ ~(versionManifest.present /\ ~ManifestForce)
  /\ ManifestForce \/ ~CacheFresh(manifestFile, now)
  /\ cpc' = "manifest-fetch"
  /\ UNCHANGED <<now, versionManifest, manifestFile, versionCache, versionFiles, cacheCall, atCall, caller, networkLog, cacheResult, cacheCalls>>
  /\ UNCHANGED notCacheVars

\* lines 64-75: the manifest is fetched and the cache file rewritten
FetchManifest(manifest) ==
  /\ cpc = "manifest-fetch"
  /\ networkLog' = Append(networkLog, "manifest")
  /\ versionManifest' = Json(manifest)
  /\ manifestFile' = CacheFile(now, manifest)
  /\ ManifestReturns(manifest)
  /\ UNCHANGED <<now, versionCache, versionFiles, cacheCall, atCall, caller, cacheCalls>>
  /\ UNCHANGED notCacheVars

\* lines 64-65, 76-79: the request fails; the error reaches the user
FetchManifestFails ==
  /\ cpc = "manifest-fetch"
  /\ networkLog' = Append(networkLog, "manifest")
  /\ cacheResult' = Thrown
  /\ cpc' = "idle"
  /\ UNCHANGED <<now, versionManifest, manifestFile, versionCache, versionFiles, cacheCall, atCall, caller, cacheCalls>>
  /\ UNCHANGED notCacheVars

\* getVersionInfo(versionId, forceRefresh) is called
CallGetVersionInfo(versionId, forceRefresh) ==
  /\ cpc = "idle"
  /\ cacheCalls < MaxCacheCalls
  /\ cacheCall' = [op |-> "info", versionId |-> versionId, forceRefresh |-> forceRefresh]
  /\ atCall' = Snapshot
  /\ caller' = "user"
  /\ networkLog' = <<>>
  /\ cacheResult' = NoCacheResult
  /\ cacheCalls' = cacheCalls + 1
  /\ cpc' = "info"
  /\ UNCHANGED <<now, versionManifest, manifestFile, versionCache, versionFiles>>
  /\ UNCHANGED notCacheVars

\* lines 120-122
InfoFromMemory ==
  /\ cpc = "info"
  /\ ~cacheCall.forceRefresh /\ versionCache[cacheCall.versionId].present
  /\ cacheResult' = Returned(versionCache[cacheCall.versionId].doc)
  /\ cpc' = "idle"
  /\ UNCHANGED <<now, versionManifest, manifestFile, versionCache, versionFiles, cacheCall, atCall, caller, networkLog, cacheCalls>>
  /\ UNCHANGED notCacheVars

\* lines 125-133: the version file exists and parses
InfoFromDisk ==
  /\ cpc = "info"
  /\ ~(~cacheCall.forceRefresh /\ versionCache[cacheCall.versionId].present)
  /\ ~cacheCall.forceRefresh /\ versionFiles[cacheCall.versionId].state = "ok"
  /\ versionCache' = [versionCache EXCEPT
                        ![cacheCall.versionId] = Json(versionFiles[cacheCall.versionId].doc)]
  /\ cacheResult' = Returned(versionFiles[cacheCall.versionId].doc)
  /\ cpc' = "idle"
  /\ UNCHANGED <<now, versionManifest, manifestFile, versionFiles, cacheCall, atCall, caller, networkLog, cacheCalls>>
  /\ UNCHANGED notCacheVars

\* lines 128-139: forced, or no readable version file; the manifest is asked for
InfoCacheMiss ==
  /\ cpc = "info"
  /\ ~(~cacheCall.forceRefresh /\ versionCache[cacheCall.versionId].present)
  /\ cacheCall.forceRefresh \/ versionFiles[cacheCall.versionId].state # "ok"
  /\ caller' = "info"
  /\ cpc' = "manifest"
  /\ UNCHANGED <<now, versionManifest, manifestFile, versionCache, versionFiles, cacheCall, atCall, networkLog, cacheResult, cacheCalls>>
  /\ UNCHANGED notCacheVars

InfoVersionUnknownAfterFetch ==
  /\ cpc = "info-find"
  /\ cacheCall.versionId \notin ManifestVersions(versionManifest.doc)
  /\ networkLog' = Append(networkLog, "info")
  /\ cacheResult' = Thrown
  /\ cpc' = "idle"
  /\ UNCHANGED <<now, versionManifest, manifestFile, versionCache, versionFiles, cacheCall, atCall, caller, cacheCalls>>
  /\ UNCHANGED notCacheVars

\* lines 140-144
InfoVersionUnknown ==
  /\ cpc = "info-find"
  /\ cacheCall.versionId \notin ManifestVersions(versionManifest.doc)
  /\ cacheResult' = Thrown
  /\ cpc' = "idle"
  /\ UNCHANGED <<now, versionManifest, manifestFile, versionCache, versionFiles, cacheCall, atCall, caller, networkLog, cacheCalls>>
  /\ UNCHANGED notCacheVars

\* lines 147-158: the descriptor is fetched, written and remembered
FetchVersionInfo(versionInfo) ==
  /\ cpc = "info-find"
  /\ cacheCall.versionId \in ManifestVersions(versionManifest.doc)
  /\ networkLog' = Append(networkLog, "info")
  /\ versionFiles' = [versionFiles EXCEPT ![cacheCall.versionId] = CacheFile(now, versionInfo)]
  /\ versionCache' = [versionCache EXCEPT ![cacheCall.versionId] = Json(versionInfo)]
  /\ cacheResult' = Returned(versionInfo)
  /\ cpc' = "idle"
  /\ UNCHANGED <<now, versionManifest, manifestFile, cacheCall, atCall, caller, cacheCalls>>
  /\ UNCHANGED notCacheVars

\* lines 150-151, 159-162
FetchVersionInfoFails ==
  /\ cpc = "info-find"
  /\ cacheCall.versionId \in ManifestVersions(versionManifest.doc)
  /\ networkLog' = Append(networkLog, "info")
  /\ cacheResult' = Thrown
  /\ cpc' = "idle"
  /\ UNCHANGED <<now, versionManifest, manifestFile, versionCache, versionFiles, cacheCall, atCall, caller, cacheCalls>>
  /\ UNCHANGED notCacheVars

\* an hour passes between two calls
PassTime ==
  /\ cpc = "idle"
  /\ now < MaxClock
  /\ now' = now + 1
  /\ UNCHANGED <<cpc, versionManifest, manifestFile, versionCache, versionFiles, cacheCall, atCall, caller, networkLog, cacheResult, cacheCalls>>
  /\ UNCHANGED notCacheVars

NextCache ==
  \/ \E forceRefresh \in BOOLEAN : CallGetVersionManifest(forceRefresh)
  \/ ManifestFromMemory
  \/ ManifestFromDisk
  \/ ManifestCacheMiss
  \/ \E manifest \in ServedManifests : FetchManifest(manifest)
  \/ FetchManifestFails
  \/ \E versionId \in VersionIds, forceRefresh \in BOOLEAN :
       CallGetVersionInfo(versionId, forceRefresh)
  \/ InfoFromMemory
  \/ InfoFromDisk
  \/ InfoCacheMiss
  \/ InfoVersionUnknown
  \/ \E versionInfo \in ServedVersionInfos : FetchVersionInfo(versionInfo)
  \/ FetchVersionInfoFails
  \/ PassTime

\* =========================================================================
\*  properties of downloadFiles (SpecBatch)
\* =========================================================================
\* the downloadFile calls that have started and not yet settled
InFlight == {i \in 1..downloads : call[i] = "pending"}

\* C1: with maxConcurrent >= 1, at most maxConcurrent downloadFile calls are
\* started and not yet settled, in every reachable state.
C1_InFlightAtMostMaxConcurrent ==
  maxConcurrent >= 1 => Cardinality(InFlight) <= maxConcurrent

\* C1 witness: the limit is reached again after a completion started the next
\* entry, while an entry is still waiting to be started.
C1_Witness ==
  /\ maxConcurrent = 2
  /\ Cardinality(InFlight) = maxConcurrent
  /\ handled # {}
  /\ currentIndex = downloads

\* C4: when downloadFiles returns, every entry was attempted exactly once,
\* results holds exactly one record per entry, and success + failed is the
\* number of entries, whatever the outcomes of the other entries.
C4_EveryEntryExactlyOnce ==
  bpc = "returned" =>
    /\ \A i \in 1..downloads : attempts[i] = 1
    /\ Len(returnValue.results) = downloads
    /\ \A i \in 1..downloads :
         Cardinality({k \in 1..Len(returnValue.results) :
                        returnValue.results[k].entry = i}) = 1
    /\ \A k \in 1..Len(returnValue.results) :
         returnValue.results[k].success = (call[returnValue.results[k].entry] = "true")
    /\ returnValue.success + returnValue.failed = downloads
    /\ returnValue.success = Cardinality({i \in 1..downloads : call[i] = "true"})

\* C4 witness: a returned batch of three in which one entry threw, one
\* resolved false and one resolved true.
C4_Witness ==
  /\ bpc = "returned"
  /\ downloads = 3
  /\ \E i, j, k \in 1..downloads :
       call[i] = "throw" /\ call[j] = "false" /\ call[k] = "true"

\* the step in which the completion of entry i is processed
Processes(i) == i \notin handled /\ i \in handled'

\* C33: in downloadFiles, the step that processes a settled fetch while
\* unstarted entries remain also starts the next unstarted entry, in input
\* order, and processes no other completion; so while entries remain
\* unstarted every slot is taken, and entries of a later group run beside
\* entries of an earlier one.
C33_NextEntryStartedOnCompletion ==
  /\ [](bpc = "waiting" /\ currentIndex < downloads =>
          activeDownloads = maxConcurrent)
  /\ [][\A i \in 1..downloads :
          Processes(i) =>
            /\ handled' = handled \cup {i}
            /\ currentIndex < downloads =>
                 /\ currentIndex' = currentIndex + 1
                 /\ call[currentIndex + 1] = "unstarted"
                 /\ call'[currentIndex + 1] = "pending"
                 /\ activeDownloads' = activeDownloads]_vars

\* C33 witness: with two slots and three entries, the third entry is being
\* fetched beside an entry of the first two that has not settled
C33_Witness ==
  /\ maxConcurrent = 2 /\ downloads = 3
  /\ Cardinality(handled) = 1
  /\ call[3] = "pending"
  /\ \E i \in 1..2 : call[i] = "pending"

\* C32: downloadFiles eventually returns, for every batch (the empty one
\* included) and every maxConcurrent, when every downloadFile call it makes
\* eventually settles (SpecBatchFair).
C32_DownloadFilesEventuallyReturns == <>(bpc = "returned")

\* what the poll of lines 250-257 can never see when the start loop of lines
\* 244-246 made no call: entries left, nothing active, nothing pending
NothingStarted ==
  /\ bpc = "waiting"
  /\ downloads > 0
  /\ currentIndex = 0
  /\ activeDownloads = 0

\* with at least one slot the call returns
ReturnsWithASlot == (maxConcurrent >= 1) => <>(bpc = "returned")

\* =========================================================================
\*  properties of downloadFile (SpecFile)
\* =========================================================================
\* the file at filePath hashes to h, compared case-insensitively
FileHashesTo(file, h) ==
  file.exists /\ ToLowerCase(Sha1Hex(file.data)) = ToLowerCase(h)

\* C2: whenever downloadFile reports success, the file exists and, when an
\* expected SHA-1 was given, the file hashes to it (case-insensitively),
\* whether the success came from the pre-existing-file check, a direct fetch
\* or a fetch reached through redirects.
C2_SuccessMeansVerifiedFile ==
  (dlpc = "done" /\ returned = "true") =>
    /\ disk.exists
    /\ ExpectedGiven(expectedSha1) => FileHashesTo(disk, expectedSha1.hex)

\* C2 witness: success through a redirect and a fetch that replaced the file,
\* with an expected SHA-1 written in upper case.
C2_Witness ==
  /\ dlpc = "done" /\ returned = "true"
  /\ hops > 0 /\ httpRequests = hops + 1
  /\ ExpectedGiven(expectedSha1)
  /\ expectedSha1.hex # Sha1Hex(disk.data)
  /\ disk # disk0
  /\ Len(disk.data) = MaxBody

\* C3: whenever downloadFile ends in failure, no file exists at the
\* destination when the call settles.
C3_FailureLeavesNoFile ==
  (dlpc = "done" /\ returned \in {"false", "rejected"}) => ~disk.exists

\* C5: if expectedSha1 is given and the file already at the destination
\* hashes to it, downloadFile returns success without any HTTP request and
\* without modifying the file.
C5_ExistingFileShortCircuits ==
  (ExpectedGiven(expectedSha1) /\ FileHashesTo(disk0, expectedSha1.hex)) =>
    /\ httpRequests = 0
    /\ disk = disk0
    /\ dlpc # "called" => (dlpc = "done" /\ returned = "true")

\* C5 witness: the call has returned on a file whose hash matches an expected
\* SHA-1 written in another case.
C5_Witness ==
  /\ ExpectedGiven(expectedSha1) /\ FileHashesTo(disk0, expectedSha1.hex)
  /\ expectedSha1.hex # Sha1Hex(disk0.data)
  /\ Len(disk0.data) > 0
  /\ dlpc = "done" /\ returned = "true"

\* =========================================================================
\*  properties of rule evaluation (SpecRules)
\* =========================================================================
\* the action of the last rule of the list that satisfies Matches
LastMatching(list, Matches(_)) ==
  LET hits == {i \in 1..Len(list) : Matches(list[i])}
  IN  IF hits = {} THEN "none"
      ELSE list[CHOOSE i \in hits : \A j \in hits : j <= i].action

LibraryMatch(rule) == appliesToOs(rule)
LauncherMatch(rule) == RuleMatches(rule, ruleArgs)

\* C10: both isLibraryApplicable and evaluateRules return the action of the
\* last rule whose conditions match, scanning all rules without
\* short-circuiting: allow gives applicable, disallow gives not applicable.
C10_LastMatchingRuleWins ==
  /\ (libraryVerdict # "none" /\ LastMatching(rules, LibraryMatch) # "none") =>
       (libraryVerdict = "applicable") = (LastMatching(rules, LibraryMatch) = "allow")
  /\ (launcherVerdict # "none" /\ LastMatching(rules, LauncherMatch) # "none") =>
       (launcherVerdict = "allowed") = (LastMatching(rules, LauncherMatch) = "allow")

\* the rule's os clause describes the host: no clause, or every field it gives
\* names the host's system and architecture
RuleMatchesHost(rule) ==
  \/ ~rule.os.present
  \/ /\ rule.os.name = "" \/ rule.os.name = getOsName
     /\ rule.os.arch = "" \/ rule.os.arch = getOsArchitecture

\* both evaluations of the library have been made
BothEvaluated == libraryVerdict # "none" /\ classpathVerdict # "none"

\* C24: a library with no rules is treated as applicable by both the library
\* pipeline and classpath construction, and a library whose rules are present
\* but none of which matches the host is treated as not applicable by both.
C24_RuleVerdictsAgree ==
  BothEvaluated =>
    /\ Len(LibraryRules.list) = 0 =>
         libraryVerdict = "applicable" /\ classpathVerdict = "applicable"
    /\ (Len(rules) > 0 /\ \A i \in 1..Len(rules) : ~RuleMatchesHost(rules[i])) =>
         libraryVerdict = "skipped" /\ classpathVerdict = "skipped"

\* the same with "no rules" read as "no rules field": the two evaluations
\* part only on a rules field that holds an empty list
RuleVerdictsAgreeOffEmptyList ==
  BothEvaluated =>
    /\ ~hasRules =>
         libraryVerdict = "applicable" /\ classpathVerdict = "applicable"
    /\ (Len(rules) > 0 /\ \A i \in 1..Len(rules) : ~RuleMatchesHost(rules[i])) =>
         libraryVerdict = "skipped" /\ classpathVerdict = "skipped"

\* the rule list tests the host only: no rule has a features clause
OnlyOsConditions == \A i \in 1..Len(rules) : ~rules[i].features.present

\* C35: for every rule list with OS/arch conditions only and every host,
\* isLibraryApplicable and the classpath rule check of the launcher give the
\* same verdict, so a library the launcher puts on the classpath is one the
\* library pipeline selected for download.
C35_ClasspathVerdictIsLibraryVerdict ==
  (BothEvaluated /\ OnlyOsConditions) =>
    (classpathVerdict = "applicable") = (libraryVerdict = "applicable")

\* a matching disallow rule followed by a matching allow rule: the launcher
\* puts the library on the classpath, the library pipeline has skipped it
OnClasspathNotDownloaded ==
  /\ BothEvaluated /\ OnlyOsConditions
  /\ Len(rules) = 2
  /\ rules[1] = Rule("disallow", NoOs, NoFeatures)
  /\ rules[2] = Rule("allow", NoOs, NoFeatures)
  /\ classpathVerdict = "applicable" /\ libraryVerdict = "skipped"

\* the two evaluations agree on lists of one rule that names an operating
\* system, with or without one of the architectures x86 and x64
VerdictsAgreeOnOneNamedOs ==
  (BothEvaluated /\ Len(rules) = 1 /\ rules[1].os.present /\ rules[1].os.name # ""
     /\ OnlyOsConditions) =>
    (classpathVerdict = "applicable") = (libraryVerdict = "applicable")

\* =========================================================================
\*  specifications
\* =========================================================================
\* =========================================================================
\*  properties of generateLaunchCommand (SpecLaunch)
\* =========================================================================
\* C6: no token of the command produced by generateLaunchCommand contains
\* the substring "${", whichever part of the command the token came from
\* (custom JVM args, descriptor JVM args, main class, descriptor game args,
\* custom game args).
C6_NoPlaceholderSurvives ==
  lpc = "done" => \A i \in 1..Len(args) : ~Includes(args[i], <<"${">>)

\* C39: launchGame spawns the child process with program javaPath and an
\* argv equal, token for token, to [jvm args, main class, game args] as
\* generateLaunchCommand materialized them, tokens that contain spaces
\* included.
C39_SpawnedArgvIsMaterializedArgs ==
  lpc = "spawned" =>
    /\ spawned.javaPath = options.javaPath
    /\ spawned.args = args

\* the same for a Java path and tokens that contain no space
SpawnedArgvWithoutSpaces ==
  (/\ lpc = "spawned"
   /\ ~Includes(options.javaPath, <<" ">>)
   /\ \A i \in 1..Len(args) : ~Includes(args[i], <<" ">>) /\ args[i] # <<>>) =>
    /\ spawned.javaPath = options.javaPath
    /\ spawned.args = args

\* a launch without spaces has been spawned
SpawnedWithoutSpaces ==
  /\ lpc = "spawned"
  /\ ~Includes(options.javaPath, <<" ">>)
  /\ \A i \in 1..Len(args) : ~Includes(args[i], <<" ">>) /\ args[i] # <<>>
  /\ Len(spawned.args) > 3

\* C28: every public operation (downloadFile, downloadFiles,
\* getVersionManifest, getVersionInfo, downloadAllAssets, downloadLibraries,
\* downloadClient, installFabric, installForge, generateLaunchCommand,
\* launchGame) reports failure through its returned result value and never
\* through a thrown exception or rejected promise.
C28_FailuresReportedByResult ==
  /\ lpc # "threw"
  /\ returned # "rejected"
  /\ cpc = "idle" => cacheResult # Thrown

\* the tokens the entries of a descriptor argument list evaluate to, entry
\* by entry, in the order of the list
RECURSIVE InDescriptorOrder(_, _, _, _)
InDescriptorOrder(list, largs, cp, conf) ==
  IF list = <<>> THEN <<>>
  ELSE processArgumentArray(<<Head(list)>>, largs, cp, conf)
       \o InDescriptorOrder(Tail(list), largs, cp, conf)

\* the command of C22, part by part
CustomJvmPart == IF Truthy(options.vmOptions) THEN options.vmOptions.v ELSE <<>>
DescriptorJvmPart ==
  IF versionJson.jvm.present
  THEN InDescriptorOrder(versionJson.jvm.list, launchArgs, Str(classpath), configure)
  ELSE <<>>
MemoryPart ==
  (IF Truthy(options.minMemory)
   THEN <<<<"-Xmn">> \o options.minMemory.v \o <<"m">>>> ELSE <<>>)
  \o (IF Truthy(options.maxMemory)
      THEN <<<<"-Xmx">> \o options.maxMemory.v \o <<"m">>>> ELSE <<>>)
DescriptorGamePart ==
  IF versionJson.game.present
  THEN InDescriptorOrder(versionJson.game.list, launchArgs, Undefined, configure)
  ELSE IF Truthy(versionJson.minecraftArguments)
       THEN InDescriptorOrder(LegacyArgs(versionJson.minecraftArguments.v), launchArgs,
                              Undefined, configure)
       ELSE <<>>
CustomGamePart == IF Truthy(options.gameOptions) THEN options.gameOptions.v ELSE <<>>
CommandParts ==
  CustomJvmPart \o DescriptorJvmPart \o MemoryPart \o <<versionJson.mainClass>>
  \o DescriptorGamePart \o CustomGamePart

\* C22: the command is javaPath, the custom JVM args, the evaluated
\* arguments.jvm entries in descriptor order, -Xmn and -Xmx when provided,
\* the main class, the evaluated arguments.game entries (the split
\* minecraftArguments tokens only when arguments.game is absent) in
\* descriptor order, and the custom game args, in this order.
C22_CommandOrder ==
  lpc = "done" =>
    /\ args = CommandParts
    /\ fullCommand = Join(<<options.javaPath>> \o CommandParts, " ")

\* C22 witness: a command with custom JVM and game args, both memory
\* settings and a descriptor that carries arguments.game and
\* minecraftArguments at once.
C22_Witness ==
  /\ lpc = "done"
  /\ CustomJvmPart # <<>> /\ CustomGamePart # <<>>
  /\ Len(MemoryPart) = 2
  /\ versionJson.game.present /\ Truthy(versionJson.minecraftArguments)
  /\ Len(DescriptorJvmPart) > 2 /\ Len(DescriptorGamePart) > 2
  /\ args = CommandParts

\* the gated resolution entry of arguments.game
ResolutionEntry ==
  ArgRulesArray(AllowIf([has_custom_resolution |-> TRUE]),
                <<Flag("width"), Ph("resolution_width"),
                  Flag("height"), Ph("resolution_height")>>)
HasResolutionEntry ==
  /\ versionJson.game.present
  /\ \E i \in 1..Len(versionJson.game.list) : versionJson.game.list[i] = ResolutionEntry
ResolutionTokens ==
  <<Flag("width"), ValueToString(options.width).v,
    Flag("height"), ValueToString(options.height).v>>
ResolutionFlags == {Flag("width"), Flag("height")}
\* seq holds part as a run of adjacent elements
HoldsRun(seq, part) ==
  \E k \in 0..(Len(seq) - Len(part)) : \A j \in 1..Len(part) : seq[k + j] = part[j]

\* C23: the entry gated by has_custom_resolution contributes all four of
\* its flag/value tokens iff both width and height are set, and no token at
\* all otherwise.
C23_ResolutionEntryAllOrNothing ==
  (lpc = "done" /\ HasResolutionEntry) =>
    IF Truthy(options.width) /\ Truthy(options.height)
    THEN /\ HoldsRun(gameArgs, ResolutionTokens)
         /\ InDescriptorOrder(<<ResolutionEntry>>, launchArgs, Undefined, configure)
              = ResolutionTokens
    ELSE /\ \A i \in 1..Len(args) : args[i] \notin ResolutionFlags
         /\ InDescriptorOrder(<<ResolutionEntry>>, launchArgs, Undefined, configure) = <<>>

\* C23 witnesses: a command with both token pairs, and (below) a command
\* for a width without a height, which has neither.
C23_Witness ==
  /\ lpc = "done" /\ HasResolutionEntry
  /\ Truthy(options.width) /\ Truthy(options.height)
  /\ HoldsRun(args, <<Flag("width"), <<"854">>, Flag("height"), <<"480">>>>)

C23_WitnessWidthOnly ==
  /\ lpc = "done" /\ HasResolutionEntry
  /\ Truthy(options.width) /\ ~Truthy(options.height)
  /\ \A i \in 1..Len(args) : args[i] \notin ResolutionFlags

\* LibrariesDownloader.getLibraryPath (libraries-downloader.ts 103-117)
getLibraryPath(library) ==
  IF library.artifact.present
  THEN <<dataDir, "/libraries/">> \o library.artifact.path
  ELSE <<dataDir, "/libraries/">> \o Join([i \in 1..Len(library.name.groupId) |->
                                             <<library.name.groupId[i]>>], "/")
       \o <<"/", library.name.artifactId, "/", library.name.version, "/",
            library.name.artifactId, "-", library.name.version, ".jar">>

\* a flag token, and a placeholder value token, of a descriptor
IsFlag(token) == StartsWithDashes(token) /\ ~Includes(token, <<"${">>)
IsPlaceholder(token) == ~StartsWithDashes(token) /\ PlaceholderMatches(token, 1) # <<>>

\* the <<flag, placeholder>> pairs adjacent in a list of tokens
AdjacentPairs(tokens) ==
  {<<tokens[i], tokens[i + 1]>> : i \in {j \in 1..(Len(tokens) - 1) :
                                          IsFlag(tokens[j]) /\ IsPlaceholder(tokens[j + 1])}}

\* the top-level strings of an argument array, in order; an entry of
\* another kind separates its neighbours
TopLevelTokens(list) ==
  [i \in 1..Len(list) |-> IF list[i].kind = "string" THEN list[i].s ELSE <<>>]

\* every <<flag, placeholder>> pair of the descriptor's game arguments
DescriptorPairs(vj) ==
  IF vj.game.present
  THEN AdjacentPairs(TopLevelTokens(vj.game.list))
       \cup UNION {AdjacentPairs(vj.game.list[i].value) :
                     i \in {j \in 1..Len(vj.game.list) : vj.game.list[j].kind = "rules-array"}}
  ELSE IF Truthy(vj.minecraftArguments)
       THEN AdjacentPairs(Split(vj.minecraftArguments.v, " "))
       ELSE {}

\* the game arguments that came from the descriptor
EmittedDescriptorGameArgs ==
  SubSeq(gameArgs, 1, Len(gameArgs) - Len(Spread(launchArgs.customGameArgs)))

\* C7: in the emitted game arguments, every descriptor flag that the
\* descriptor follows with a placeholder value is either emitted together
\* with its resolved value (adjacent, flag first) or not emitted at all, and
\* then neither is its value; for gated value arrays, top-level
\* arguments.game strings and legacy minecraftArguments tokens alike.
C7_FlagAndValueTogether ==
  lpc = "done" =>
    LET out == EmittedDescriptorGameArgs
    IN  \A pair \in DescriptorPairs(versionJson) :
          LET value == replaceArguments(pair[2], launchArgs, Undefined, configure)
          IN  \/ \A k \in 1..Len(out) : out[k] # pair[1]
              \/ /\ ~value.null
                 /\ \A k \in 1..Len(out) :
                      out[k] = pair[1] => k < Len(out) /\ out[k + 1] = value.s

\* the libraries buildClasspath holds applicable and not native
OnClasspath(library) ==
  /\ ~library.rules.present \/ evaluateRules(library.rules.list, <<>>)
  /\ ~library.natives

RECURSIVE ExpectedLibraryPaths(_)
ExpectedLibraryPaths(libraries) ==
  IF Len(libraries) = 0 THEN <<>>
  ELSE (IF OnClasspath(Head(libraries)) THEN <<getLibraryPath(Head(libraries))>> ELSE <<>>)
       \o ExpectedLibraryPaths(Tail(libraries))

\* C8: buildClasspath returns, joined by the platform path separator, the
\* local paths of exactly the applicable non-native libraries of the
\* descriptor, in descriptor order with none left out, followed by
\* versions/<name>/<name>.jar as the last entry.
C8_ClasspathIsApplicableLibrariesThenMainJar ==
  lpc \in {"classpath", "jvm", "game", "done"} =>
    classpath = Join(Append(ExpectedLibraryPaths(versionJson.libraries),
                            mainJarPath(options.version)), PathDelimiter)

\* C9: every command produced contains the token -cp exactly once, and the
\* token after it is the non-empty classpath string, for descriptors of the
\* new arguments schema and for legacy minecraftArguments descriptors alike.
C9_ClasspathFlagExactlyOnce ==
  lpc = "done" =>
    /\ Cardinality({i \in 1..Len(args) : args[i] = <<"-cp">>}) = 1
    /\ \A i \in 1..Len(args) :
         args[i] = <<"-cp">> => i < Len(args) /\ args[i + 1] = classpath /\ classpath # <<>>

\* =========================================================================
\*  properties of installFabric / installForge (SpecInstall)
\* =========================================================================
\* C11: the merge of a base descriptor with an overlay sets mainClass to the
\* overlay's mainClass when the overlay has one, libraries to the base
\* libraries followed by the overlay libraries (length the sum of the two),
\* and arguments.jvm / arguments.game to the base entries followed by the
\* overlay entries.
C11_MergeAppendsOverlay ==
  mergedJson.present =>
    LET base == originalVersionJson.doc
        merged == mergedJson.doc
    IN  /\ Truthy(overlayJson.mainClass) => merged.mainClass = overlayJson.mainClass
        /\ merged.libraries.list = base.libraries.list \o overlayJson.libraries.list
        /\ Len(merged.libraries.list)
             = Len(base.libraries.list) + Len(overlayJson.libraries.list)
        /\ merged.arguments.jvm.list
             = base.arguments.jvm.list \o overlayJson.arguments.jvm.list
        /\ merged.arguments.game.list
             = base.arguments.game.list \o overlayJson.arguments.game.list

\* a merge of non-empty base and overlay libraries and arguments, with a new
\* main class, has been written
C11_Witness ==
  /\ mergedJson.present
  /\ versionsDir[targetVersionName].json = mergedJson
  /\ Truthy(overlayJson.mainClass)
  /\ originalVersionJson.doc.libraries.list # <<>>
  /\ Len(overlayJson.libraries.list) = MaxEntries
  /\ originalVersionJson.doc.arguments.jvm.list # <<>>
  /\ overlayJson.arguments.jvm.list # <<>>
  /\ overlayJson.arguments.game.list # <<>>

\* C12: installFabric(f, v) run twice in succession leaves the same
\* versions/<v>/<v>.json as running it once.
C12_InstallFabricTwiceSameDescriptor ==
  (/\ loader = "fabric" /\ ipc = "returned" /\ installs = 2
   /\ installResult.success /\ descriptorAfterFirst.success)
  => versionsDir[targetVersionName].json = descriptorAfterFirst.json

\* C13: installFabric / installForge on a target whose directory or descriptor
\* does not exist return a failure, create no directory under versions/ and
\* write no descriptor or JAR.
C13_TargetMissingFailsAndWritesNothing ==
  (/\ ipc = "returned"
   /\ \/ ~versionsDir0[targetVersionName].dir
      \/ ~versionsDir0[targetVersionName].json.present)
  => /\ installResult.returned
     /\ ~installResult.success
     /\ versionsDir = versionsDir0

\* a call on a missing target has got past the download of the loader and returned
C13_Witness ==
  /\ ipc = "returned"
  /\ installResult.error \in {"no version directory", "no version JSON"}
  /\ ~versionsDir0[targetVersionName].json.present

\* C26: when the Forge installer child process exits with a non-zero code, or
\* cannot be spawned, installForge returns a failure and
\* versions/<name>/<name>.json and versions/<name>/<name>.jar are left exactly
\* as they were before the call.
C26_InstallerFailureLeavesVersion ==
  (ipc = "returned" /\ loader = "forge" /\ installResult.error = "installer") =>
    /\ installResult.returned
    /\ ~installResult.success
    /\ versionsDir[targetVersionName].json = versionsDir0[targetVersionName].json
    /\ versionsDir[targetVersionName].jar = versionsDir0[targetVersionName].jar

\* the installer failed on a target that held a descriptor and a JAR
C26_Witness ==
  /\ ipc = "returned" /\ loader = "forge"
  /\ installResult = FailureResult("installer")
  /\ versionsDir0[targetVersionName].json.present
  /\ versionsDir0[targetVersionName].jar = ClientJar
  /\ ~tempDir

\* =========================================================================
\*  properties of getVersionManifest / getVersionInfo (SpecCache)
\* =========================================================================
\* a call of op has settled
Settled(op) == cpc = "idle" /\ cacheCall.op = op /\ cacheResult.kind # "none"

\* the disk cache a call found was present, readable and less than 24 hours old
UsableAtCall(file) == file.state = "ok" /\ atCall.now - file.time < Day

C15_VersionInfoCacheDiscipline ==
  (Settled("info") /\ ~cacheCall.forceRefresh /\ cacheResult.kind = "returned") =>
    LET id == cacheCall.versionId
        inMemory == atCall.versionCache[id].present
        onDisk == UsableAtCall(atCall.versionFiles[id])
    IN  /\ inMemory => networkLog = <<>> /\ cacheResult.doc = atCall.versionCache[id].doc
        /\ ~inMemory /\ onDisk =>
             /\ \A i \in 1..Len(networkLog) : networkLog[i] # "info"
             /\ cacheResult.doc = atCall.versionFiles[id].doc
        /\ ~inMemory /\ ~onDisk =>
             /\ \E i \in 1..Len(networkLog) : networkLog[i] = "info"
             /\ versionFiles[id] = CacheFile(atCall.now, cacheResult.doc)

\* the manifest the call looked the identifier up in; when none could be
\* obtained, every manifest the server may hold
ManifestsConsulted ==
  IF versionManifest.present THEN {versionManifest.doc} ELSE {"m1"} \cup ServedManifests

\* when the call was made the identifier was in neither descriptor cache, and
\* the manifest does not list it
UnknownVersion ==
  LET id == cacheCall.versionId
  IN  /\ ~atCall.versionCache[id].present
      /\ atCall.versionFiles[id].state = "absent"
      /\ \A m \in ManifestsConsulted : id \notin ManifestVersions(m)

\* C25: getVersionInfo(id), for an id present in neither cache and not listed
\* in the manifest, fails with an error, issues no descriptor fetch, and
\* leaves the in-memory and on-disk descriptor cache unchanged.
C25_UnknownVersionFailsWithoutFetch ==
  (Settled("info") /\ UnknownVersion) =>
    /\ cacheResult = Thrown
    /\ \A i \in 1..Len(networkLog) : networkLog[i] # "info"
    /\ versionCache = atCall.versionCache
    /\ versionFiles = atCall.versionFiles

\* an identifier the refreshed manifest lists is asked for while the
\* manifest in memory does not list it yet
C25_Witness ==
  /\ Settled("info") /\ UnknownVersion
  /\ cacheCall.versionId = "1.20.2"
  /\ versionManifest = Json("m1")
  /\ cacheResult = Thrown

\* =========================================================================
\*  AssetsDownloader.downloadAssets (pooled variant): runs made in
\*  succession on one data directory
\* =========================================================================
\* the bytes the asset server holds; an asset is named by their SHA-1
AssetContents == {<<"x", "y">>, <<"y">>}
AssetHashes == {Sha1Hex(b) : b \in AssetContents}
ContentOf(h) == CHOOSE b \in AssetContents : Sha1Hex(b) = h

\* Object.entries(assetIndex.objects), as the list of the entries' hashes
AssetIndexes ==
  {q \in SeqsUpTo(AssetHashes, MaxAssets) :
     \A i, j \in 1..Len(q) : i # j => q[i] # q[j]}

\* one processDownload call
QueuedTask == [pc |-> "queued", body |-> <<>>]
StartedTask == [pc |-> "called", body |-> <<>>]
SettledTask(result) == [pc |-> IF result THEN "true" ELSE "false", body |-> <<>>]

\* a fresh data directory, no run made yet
InitAssets ==
  /\ FileIdle
  /\ BatchIdle
  /\ HostIdle
  /\ RulesIdle
  /\ LaunchIdle
  /\ InstallIdle
  /\ CacheIdle
  /\ NativeIdle
  /\ ClientIdle
  /\ LifecycleIdle
  /\ MergeIdle
  /\ ResolverIdle
  /\ apc = "idle"
  /\ objects = [h \in AssetHashes |-> NoFile]
  /\ downloadQueue = <<>> /\ maxConcurrentDownloads = 0 /\ queueIndex = 0
  /\ task = <<>> /\ assetActive = {} /\ success = 0 /\ failed = 0
  /\ assetRequests = 0 /\ assetResult = <<>> /\ assetRuns = 0
  /\ completedDownload = "none"

\* lines 330-351, 395-408: the queue is built and the first
\* min(maxConcurrentDownloads, total) tasks are started
CallDownloadAssets(assetIndex, conc) ==
  /\ apc = "idle"
  /\ assetRuns < MaxAssetRuns
  /\ apc' = "pool"
  /\ downloadQueue' = assetIndex
  /\ maxConcurrentDownloads' = conc
  /\ queueIndex' = Min(Len(assetIndex), conc)
  /\ task' = [i \in 1..Len(assetIndex) |->
                IF i <= Min(Len(assetIndex), conc) THEN StartedTask ELSE QueuedTask]
  /\ assetActive' = 1..Min(Len(assetIndex), conc)
  /\ success' = 0 /\ failed' = 0 /\ assetRequests' = 0
  /\ assetResult' = <<>>
  /\ completedDownload' = "none"
  /\ UNCHANGED <<objects, assetRuns>>
  /\ UNCHANGED notAssetVars

\* task i settles with result: its finally callback takes it out of
\* activeDownloads (lines 405-407); the Promise.race the loop waits on
\* (line 415) resolves with the result of the first task that settles, and
\* the results of tasks that settle before the loop resumes are not kept
TaskSettles(i, result) ==
  /\ task' = [task EXCEPT ![i] = SettledTask(result)]
  /\ assetActive' = assetActive \ {i}
  /\ completedDownload' =
       IF completedDownload = "none"
       THEN (IF result THEN "true" ELSE "false")
       ELSE completedDownload
  /\ UNCHANGED <<queueIndex, success, failed>>

\* lines 369-383: a file that is present counts as downloaded; otherwise
\* downloadFile is called without an expected SHA-1 and issues the GET
AssetPathExists(i) ==
  /\ apc = "pool"
  /\ i \in assetActive
  /\ task[i].pc = "called"
  /\ IF objects[downloadQueue[i]].exists
     THEN /\ TaskSettles(i, TRUE)
          /\ UNCHANGED assetRequests
     ELSE /\ task' = [task EXCEPT ![i].pc = "request"]
          /\ assetRequests' = assetRequests + 1
          /\ UNCHANGED <<assetActive, completedDownload, queueIndex, success, failed>>
  /\ UNCHANGED <<apc, objects, downloadQueue, maxConcurrentDownloads,
                 assetResult, assetRuns>>
  /\ UNCHANGED notAssetVars

\* downloader.ts 59-62, 130-138: downloadFile rejects before a write stream
\* is opened; processDownload's catch returns false (lines 387-391)
AssetFetchFails(i) ==
  /\ apc = "pool"
  /\ i \in assetActive
  /\ task[i].pc = "request"
  /\ TaskSettles(i, FALSE)
  /\ UNCHANGED <<apc, objects, downloadQueue, maxConcurrentDownloads,
                 assetRequests, assetResult, assetRuns>>
  /\ UNCHANGED notAssetVars

\* downloader.ts 64-91: status 200, the write stream creates the file
AssetStatus200(i) ==
  /\ apc = "pool"
  /\ i \in assetActive
  /\ task[i].pc = "request"
  /\ task' = [task EXCEPT ![i] = [pc |-> "stream", body |-> ContentOf(downloadQueue[i])]]
  /\ objects' = [objects EXCEPT ![downloadQueue[i]] = FileOf(<<>>)]
  /\ UNCHANGED <<apc, downloadQueue, maxConcurrentDownloads, queueIndex, assetActive,
                 completedDownload, success, failed, assetRequests, assetResult,
                 assetRuns>>
  /\ UNCHANGED notAssetVars

\* downloader.ts 91: one chunk of the body reaches the file
AssetWrite(i) ==
  /\ apc = "pool"
  /\ i \in assetActive
  /\ task[i].pc = "stream"
  /\ task[i].body # <<>>
  /\ task' = [task EXCEPT ![i].body = Tail(task[i].body)]
  /\ objects' = [objects EXCEPT ![downloadQueue[i]] =
                   FileOf(objects[downloadQueue[i]].data \o <<Head(task[i].body)>>)]
  /\ UNCHANGED <<apc, downloadQueue, maxConcurrentDownloads, queueIndex, assetActive,
                 completedDownload, success, failed, assetRequests, assetResult,
                 assetRuns>>
  /\ UNCHANGED notAssetVars

\* downloader.ts 94-114: writer 'finish' with no expected SHA-1: resolve(true)
AssetFinish(i) ==
  /\ apc = "pool"
  /\ i \in assetActive
  /\ task[i].pc = "stream"
  /\ task[i].body = <<>>
  /\ TaskSettles(i, TRUE)
  /\ UNCHANGED <<apc, objects, downloadQueue, maxConcurrentDownloads,
                 assetRequests, assetResult, assetRuns>>
  /\ UNCHANGED notAssetVars

\* downloader.ts 117-126, 135-138: the response or the writer fails, or the
\* timeout fires, while the body is streamed: downloadFile rejects, what was
\* written stays, processDownload's catch returns false (lines 387-391)
AssetCutOff(i) ==
  /\ apc = "pool"
  /\ i \in assetActive
  /\ task[i].pc = "stream"
  /\ TaskSettles(i, FALSE)
  /\ UNCHANGED <<apc, objects, downloadQueue, maxConcurrentDownloads,
                 assetRequests, assetResult, assetRuns>>
  /\ UNCHANGED notAssetVars

\* lines 415-431: the loop resumes from await Promise.race with the value
\* the race resolved with, counts it, and starts the next queued task
RaceResolves ==
  LET more == queueIndex < Len(downloadQueue)
      next == queueIndex + 1
  IN  /\ apc = "pool"
      /\ completedDownload # "none"
      /\ success' = IF completedDownload = "true" THEN success + 1 ELSE success
      /\ failed' = IF completedDownload = "true" THEN failed ELSE failed + 1
      /\ completedDownload' = "none"
      /\ task' = [j \in 1..Len(task) |->
                    IF more /\ j = next THEN StartedTask ELSE task[j]]
      /\ assetActive' = assetActive \cup (IF more THEN {next} ELSE {})
      /\ queueIndex' = IF more THEN next ELSE queueIndex
      /\ UNCHANGED <<apc, objects, downloadQueue, maxConcurrentDownloads,
                     assetRequests, assetResult, assetRuns>>
      /\ UNCHANGED notAssetVars

\* lines 432-442: nothing is active while the queue still has entries (the
\* limit given to the constructor or to setMaxConcurrentDownloads is 0, so
\* the loop of line 399 started nothing): the next one is started and
\* nothing is counted
StartWithoutActive ==
  /\ apc = "pool"
  /\ completedDownload = "none"
  /\ assetActive = {}
  /\ queueIndex < Len(downloadQueue)
  /\ task' = [task EXCEPT ![queueIndex + 1] = StartedTask]
  /\ assetActive' = {queueIndex + 1}
  /\ queueIndex' = queueIndex + 1
  /\ UNCHANGED <<apc, objects, downloadQueue, maxConcurrentDownloads,
                 completedDownload, success, failed, assetRequests, assetResult,
                 assetRuns>>
  /\ UNCHANGED notAssetVars

\* the loop of line 411 left as soon as a failure has been counted
ReturnAssetsOnFirstFailure ==
  /\ apc = "pool"
  /\ completedDownload = "none"
  /\ \/ assetActive = {} /\ queueIndex = Len(downloadQueue)
     \/ failed > 0
  /\ apc' = "idle"
  /\ assetResult' = [total |-> Len(downloadQueue), success |-> success, failed |-> failed]
  /\ assetRuns' = assetRuns + 1
  /\ UNCHANGED <<objects, downloadQueue, maxConcurrentDownloads, queueIndex, task,
                 assetActive, completedDownload, success, failed, assetRequests>>
  /\ UNCHANGED notAssetVars

\* lines 411, 444-457: the loop ends when nothing is active and the queue is
\* used up; the counts are returned
ReturnAssets ==
  /\ apc = "pool"
  /\ completedDownload = "none"
  /\ assetActive = {}
  /\ queueIndex = Len(downloadQueue)
  /\ apc' = "idle"
  /\ assetResult' = [total |-> Len(downloadQueue), success |-> success, failed |-> failed]
  /\ assetRuns' = assetRuns + 1
  /\ UNCHANGED <<objects, downloadQueue, maxConcurrentDownloads, queueIndex, task,
                 assetActive, completedDownload, success, failed, assetRequests>>
  /\ UNCHANGED notAssetVars

NextAssets ==
  \/ \E assetIndex \in AssetIndexes, conc \in 0..MaxConc :
       CallDownloadAssets(assetIndex, conc)
  \/ \E i \in assetActive : AssetPathExists(i)
  \/ \E i \in assetActive : AssetFetchFails(i)
  \/ \E i \in assetActive : AssetStatus200(i)
  \/ \E i \in assetActive : AssetWrite(i)
  \/ \E i \in assetActive : AssetFinish(i)
  \/ \E i \in assetActive : AssetCutOff(i)
  \/ RaceResolves
  \/ StartWithoutActive
  \/ ReturnAssets

\* =========================================================================
\*  properties of the asset store (SpecAssets)
\* =========================================================================
\* C16: after any sequence of downloadAssets runs, every file in the object
\* store has the SHA-1 it is named by.
C16_ObjectStoreContentAddressed ==
  apc = "idle" =>
    \A h \in AssetHashes : objects[h].exists => Sha1Hex(objects[h].data) = h


\* C21: downloadAssets attempts every object of the index even when some
\* fail: while the run lasts, the entries started are those up to
\* queueIndex; when it returns, every entry's task has settled and the
\* returned total is the number of index entries.
C21_EveryAssetAttempted ==
  /\ apc = "pool" =>
        \A i \in 1..Len(downloadQueue) : task[i].pc = "queued" <=> i > queueIndex
  /\ (apc = "idle" /\ assetRuns > 0) =>
        /\ \A i \in 1..Len(downloadQueue) : task[i].pc \in {"true", "false"}
        /\ assetResult.total = Len(downloadQueue)

\* C21 witness: a returned run of two entries, one at a time, in which the
\* first failed and the second was downloaded after it.
C21_Witness ==
  /\ apc = "idle" /\ assetRuns > 0
  /\ maxConcurrentDownloads = 1
  /\ Len(downloadQueue) = 2
  /\ task[1].pc = "false" /\ task[2].pc = "true"
  /\ objects[downloadQueue[2]] = FileOf(ContentOf(downloadQueue[2]))
  /\ assetResult = [total |-> 2, success |-> 1, failed |-> 1]

\* C31: when downloadAssets returns, success + failed equals total, each
\* index entry being counted exactly once (as a success when its task
\* resolved true, as a failure otherwise), whatever the order in which the
\* downloads settle, several of them settling before the loop resumes from
\* its Promise.race included.
C31_EveryEntryCountedOnce ==
  (apc = "idle" /\ assetRuns > 0) =>
    /\ assetResult.success + assetResult.failed = assetResult.total
    /\ assetResult.success =
         Cardinality({i \in 1..Len(downloadQueue) : task[i].pc = "true"})
    /\ assetResult.failed =
         Cardinality({i \in 1..Len(downloadQueue) : task[i].pc = "false"})

\* =========================================================================
\*  LibrariesDownloader.downloadLibraries / downloadAndExtractNatives:
\*  the natives directory versions/<versionName>/<versionName>-natives over
\*  passes made in succession. classVersion 1 is the class of lines 17-402
\*  (META-INF removed after each JAR), classVersion 2 the class of lines
\*  421-926 (META-INF removed once, after all JARs). The normal JARs go to
\*  libraries/ and do not touch the natives directory.
\* =========================================================================
NativeNames == {"lwjgl", "openal"}
\* the applicable native libraries of a descriptor
NativeSets == {S \in SUBSET NativeNames : Cardinality(S) <= MaxNatives}
\* what a native JAR holds besides META-INF
SharedObjectOf(l) == IF l = "lwjgl" THEN "liblwjgl.so" ELSE "libopenal.so"
MetaInf == "META-INF"

NoDirectory == [exists |-> FALSE, files |-> {}]
Directory(files) == [exists |-> TRUE, files |-> files]
NativeSettled(pc) == pc \in {"success", "failed"}
Count(pc) == Cardinality({l \in DOMAIN ntask : ntask[l] = pc})

\* a data directory in which no pass has been made
InitNatives ==
  /\ FileIdle
  /\ BatchIdle
  /\ HostIdle
  /\ RulesIdle
  /\ LaunchIdle
  /\ InstallIdle
  /\ CacheIdle
  /\ AssetIdle
  /\ ClientIdle
  /\ LifecycleIdle
  /\ MergeIdle
  /\ ResolverIdle
  /\ npc = "idle"
  /\ classVersion \in {1, 2}
  /\ nativeDir = NoDirectory
  /\ nativeLibrariesToDownload = {} /\ ntask = <<>> /\ metaInfRemoval = "none"
  /\ extractedInPass = {} /\ nativeResults = <<>> /\ passes = 0
  /\ libraryConcurrency \in 1..MaxConc
  /\ normalLibrariesToDownload = 0 /\ normalIndex = 0 /\ normalActive = 0

\* the normal-JAR step of downloadLibraries: the limit handed to
\* downloadFiles, the number of normal JARs, how many of them downloadFiles
\* has started and how many of its downloadFile calls are in flight
normalVars == <<libraryConcurrency, normalLibrariesToDownload, normalIndex,
                normalActive>>

\* the step that follows the normal-JAR step (lines 878-879)
AfterNormalLibraries(natives) == IF natives # {} THEN "clean" ELSE "skip"

\* lines 822-869: the libraries are sorted into normal and native ones; with
\* normal JARs, downloadFiles(downloads, this.maxConcurrentDownloads) starts
\* its first calls; the native step is entered only with at least one
\* native library
CallDownloadLibraries(natives, normals) ==
  /\ npc = "idle"
  /\ passes < MaxPasses
  /\ nativeLibrariesToDownload' = natives
  /\ ntask' = [l \in natives |-> "queued"]
  /\ extractedInPass' = {}
  /\ nativeResults' = <<>>
  /\ normalLibrariesToDownload' = normals
  /\ normalIndex' = InitialStarts(libraryConcurrency, normals)
  /\ normalActive' = InitialStarts(libraryConcurrency, normals)
  /\ npc' = IF normals > 0 THEN "normal" ELSE AfterNormalLibraries(natives)
  /\ UNCHANGED <<classVersion, nativeDir, metaInfRemoval, passes,
                 libraryConcurrency>>
  /\ UNCHANGED notNativeVars

\* downloader.ts 219-239: a normal JAR's downloadFile call settles and
\* processNext starts the next one, if any
NormalLibrarySettles ==
  /\ npc = "normal"
  /\ normalActive > 0
  /\ IF normalIndex < normalLibrariesToDownload
     THEN /\ normalIndex' = normalIndex + 1
          /\ UNCHANGED normalActive
     ELSE /\ normalActive' = normalActive - 1
          /\ UNCHANGED normalIndex
  /\ UNCHANGED <<npc, classVersion, nativeDir, nativeLibrariesToDownload, ntask,
                 metaInfRemoval, extractedInPass, nativeResults, passes,
                 libraryConcurrency, normalLibrariesToDownload>>
  /\ UNCHANGED notNativeVars

\* line 869: downloadFiles has returned (downloader.ts 250-257)
NormalLibrariesDone ==
  /\ npc = "normal"
  /\ normalActive = 0
  /\ normalIndex = normalLibrariesToDownload
  /\ npc' = AfterNormalLibraries(nativeLibrariesToDownload)
  /\ UNCHANGED <<classVersion, nativeDir, nativeLibrariesToDownload, ntask,
                 metaInfRemoval, extractedInPass, nativeResults, passes>>
  /\ UNCHANGED normalVars
  /\ UNCHANGED notNativeVars

\* lines 752-757, 763: the old directory is removed, an empty one is made
\* and every native library's task is started
CleanNativeDir ==
  /\ npc = "clean"
  /\ nativeDir' = Directory({})
  /\ ntask' = [l \in nativeLibrariesToDownload |-> "download"]
  /\ npc' = "extract"
  /\ UNCHANGED <<classVersion, nativeLibrariesToDownload, metaInfRemoval,
                 extractedInPass, nativeResults, passes>>
  /\ UNCHANGED normalVars
  /\ UNCHANGED notNativeVars

\* lines 758-761: fs.remove or ensureDir throws; every library counts as failed
CleanNativeDirFails ==
  /\ npc = "clean"
  /\ ntask' = [l \in nativeLibrariesToDownload |-> "failed"]
  /\ npc' = "extract"
  /\ UNCHANGED <<classVersion, nativeDir, nativeLibrariesToDownload, metaInfRemoval,
                 extractedInPass, nativeResults, passes>>
  /\ UNCHANGED normalVars
  /\ UNCHANGED notNativeVars

\* lines 771-782: no URL, or downloadFile fails
NativeDownloadFails(l) ==
  /\ npc = "extract"
  /\ ntask[l] = "download"
  /\ ntask' = [ntask EXCEPT ![l] = "failed"]
  /\ UNCHANGED <<npc, classVersion, nativeDir, nativeLibrariesToDownload,
                 metaInfRemoval, extractedInPass, nativeResults, passes>>
  /\ UNCHANGED normalVars
  /\ UNCHANGED notNativeVars

\* line 779: the native JAR is in libraries/
NativeDownloaded(l) ==
  /\ npc = "extract"
  /\ ntask[l] = "download"
  /\ ntask' = [ntask EXCEPT ![l] = "extract"]
  /\ UNCHANGED <<npc, classVersion, nativeDir, nativeLibrariesToDownload,
                 metaInfRemoval, extractedInPass, nativeResults, passes>>
  /\ UNCHANGED normalVars
  /\ UNCHANGED notNativeVars

\* line 785: extract writes the JAR's META-INF entries
ExtractMetaInf(l) ==
  /\ npc = "extract"
  /\ ntask[l] = "extract"
  /\ ntask' = [ntask EXCEPT ![l] = "extractMeta"]
  /\ nativeDir' = Directory(nativeDir.files \cup {MetaInf})
  /\ extractedInPass' = extractedInPass \cup {MetaInf}
  /\ UNCHANGED <<npc, classVersion, nativeLibrariesToDownload, metaInfRemoval,
                 nativeResults, passes>>
  /\ UNCHANGED normalVars
  /\ UNCHANGED notNativeVars

\* line 785: extract writes the rest and resolves; class 1 goes on to its
\* own META-INF check (lines 228-232), class 2 counts the success (line 791)
ExtractFiles(l) ==
  /\ npc = "extract"
  /\ ntask[l] = "extractMeta"
  /\ ntask' = [ntask EXCEPT ![l] = IF classVersion = 1 THEN "check" ELSE "success"]
  /\ nativeDir' = Directory(nativeDir.files \cup {SharedObjectOf(l)})
  /\ extractedInPass' = extractedInPass \cup {SharedObjectOf(l)}
  /\ UNCHANGED <<npc, classVersion, nativeLibrariesToDownload, metaInfRemoval,
                 nativeResults, passes>>
  /\ UNCHANGED normalVars
  /\ UNCHANGED notNativeVars

\* lines 792-794: extract rejects, with nothing or with META-INF written
ExtractFails(l) ==
  /\ npc = "extract"
  /\ ntask[l] \in {"extract", "extractMeta"}
  /\ ntask' = [ntask EXCEPT ![l] = "failed"]
  /\ UNCHANGED <<npc, classVersion, nativeDir, nativeLibrariesToDownload,
                 metaInfRemoval, extractedInPass, nativeResults, passes>>
  /\ UNCHANGED normalVars
  /\ UNCHANGED notNativeVars

\* lines 228-229 (class 1): await fs.pathExists(metaInfPath)
CheckMetaInf(l) ==
  /\ npc = "extract"
  /\ ntask[l] = "check"
  /\ ntask' = [ntask EXCEPT ![l] = IF MetaInf \in nativeDir.files THEN "remove" ELSE "success"]
  /\ UNCHANGED <<npc, classVersion, nativeDir, nativeLibrariesToDownload,
                 metaInfRemoval, extractedInPass, nativeResults, passes>>
  /\ UNCHANGED normalVars
  /\ UNCHANGED notNativeVars

\* lines 231-233 (class 1): await fs.remove(metaInfPath); success++
RemoveMetaInf(l) ==
  /\ npc = "extract"
  /\ ntask[l] = "remove"
  /\ ntask' = [ntask EXCEPT ![l] = "success"]
  /\ nativeDir' = Directory(nativeDir.files \ {MetaInf})
  /\ UNCHANGED <<npc, classVersion, nativeLibrariesToDownload, metaInfRemoval,
                 extractedInPass, nativeResults, passes>>
  /\ UNCHANGED normalVars
  /\ UNCHANGED notNativeVars

\* class 2, lines 898-911: after the native step, fs.remove(metaInfPath) is
\* called without await when META-INF is there; nothing is awaited between
\* that call and the return, so the removal is still under way when the
\* pass returns
StartedRemoval ==
  IF classVersion = 2 /\ npc = "extract" /\ MetaInf \in nativeDir.files
  THEN "started" ELSE metaInfRemoval

\* lines 802-803 and 912-924 (class 1: 244-245): Promise.all has resolved,
\* or the native step was skipped; the pass returns
ReturnLibraries ==
  /\ \/ npc = "skip"
     \/ npc = "extract" /\ \A l \in DOMAIN ntask : NativeSettled(ntask[l])
  /\ metaInfRemoval' = StartedRemoval
  /\ nativeResults' = [success |-> Count("success"), failed |-> Count("failed")]
  /\ npc' = "idle"
  /\ passes' = passes + 1
  /\ UNCHANGED <<classVersion, nativeDir, nativeLibrariesToDownload, ntask,
                 extractedInPass>>
  /\ UNCHANGED normalVars
  /\ UNCHANGED notNativeVars

\* the removal started at line 905 completes
MetaInfRemoved ==
  /\ metaInfRemoval = "started"
  /\ metaInfRemoval' = "none"
  /\ nativeDir' = IF nativeDir.exists THEN Directory(nativeDir.files \ {MetaInf})
                  ELSE nativeDir
  /\ UNCHANGED <<npc, classVersion, nativeLibrariesToDownload, ntask,
                 extractedInPass, nativeResults, passes>>
  /\ UNCHANGED normalVars
  /\ UNCHANGED notNativeVars

NextNatives ==
  \/ \E natives \in NativeSets, normals \in 0..MaxLibs :
       CallDownloadLibraries(natives, normals)
  \/ NormalLibrarySettles
  \/ NormalLibrariesDone
  \/ CleanNativeDir
  \/ CleanNativeDirFails
  \/ \E l \in DOMAIN ntask : NativeDownloadFails(l)
  \/ \E l \in DOMAIN ntask : NativeDownloaded(l)
  \/ \E l \in DOMAIN ntask : ExtractMetaInf(l)
  \/ \E l \in DOMAIN ntask : ExtractFiles(l)
  \/ \E l \in DOMAIN ntask : ExtractFails(l)
  \/ \E l \in DOMAIN ntask : CheckMetaInf(l)
  \/ \E l \in DOMAIN ntask : RemoveMetaInf(l)
  \/ ReturnLibraries
  \/ MetaInfRemoved

\* =========================================================================
\*  properties of the natives directory (SpecNatives)
\* =========================================================================
\* C17: after every downloadLibraries pass, whatever the set of applicable
\* native libraries, the natives directory contains only files extracted
\* during that pass.
C17_NativesDirFreshEveryPass ==
  (npc = "idle" /\ passes > 0) => nativeDir.files \subseteq extractedInPass

\* C18: when downloadLibraries has returned, the natives directory contains
\* no META-INF subdirectory.
C18_NoMetaInfAtReturn ==
  (npc = "idle" /\ passes > 0) => MetaInf \notin nativeDir.files


\* the HTTP fetches downloadLibraries has in flight: the normal JARs' and the
\* native classifier JARs' downloadFile calls
LibraryFetchesInFlight ==
  normalActive + Cardinality({l \in DOMAIN ntask : ntask[l] = "download"})

\* C34: at every moment of downloadLibraries the number of HTTP fetches in
\* flight, normal JARs and native classifier JARs counted together, is at
\* most maxConcurrentDownloads.
C34_LibraryFetchesWithinLimit ==
  LibraryFetchesInFlight <= libraryConcurrency

\* the normal-JAR step alone keeps to the limit
NormalFetchesWithinLimit == normalActive <= libraryConcurrency

\* the normal-JAR step reaches the limit with JARs still to start
NormalFetchesAtLimit ==
  /\ npc = "normal"
  /\ normalActive = libraryConcurrency
  /\ normalIndex < normalLibrariesToDownload

\* =========================================================================
\*  MinecraftDownloader.downloadClient: calls made in succession for one
\*  version on one data directory. Each stage is one step; a stage that
\*  downloads takes one of the outcomes of FileDownloader.downloadFile. The
\*  natives directory is left to SpecNatives.
\* =========================================================================
\* what the version descriptor records, and what the servers hold
ClientBytes == <<"x", "y">>
LibraryBytes == <<"y">>
IndexBytes == <<"x">>
AssetBytes == <<"y", "x">>
DescriptorBytes == <<"x", "x">>
ClientSha1 == Sha1Hex(ClientBytes)
LibrarySha1 == Sha1Hex(LibraryBytes)
IndexSha1 == Sha1Hex(IndexBytes)
AssetHash == Sha1Hex(AssetBytes)

\* downloader.ts 99-104: the finish handler unlinks a file whose hash differs
AfterMismatchKept(written) == written
AfterMismatch(written) == NoFile

\* one outcome of downloadFile(url, filePath, expectedSha1)
Outcome(result, file, requested, complete, body) ==
  [result |-> result, file |-> file, requested |-> requested,
   complete |-> complete, body |-> body]

\* the outcomes of downloadFile on a path that holds file, when the server
\* holds one of bodies: the short circuit on a matching file (lines 31-35);
\* a rejection before the write stream is opened (lines 45-47, 59-62,
\* 130-138); a stream cut off after any number of chunks, which leaves what
\* was written (lines 117-126, 135-138); a stream written to the end, then
\* the finish handler (lines 94-114)
DownloadFileOutcomes(file, expected, bodies) ==
  IF ExpectedGiven(expected) /\ validateFileSha1(file, expected.hex)
  THEN {Outcome("true", file, FALSE, FALSE, <<>>)}
  ELSE {Outcome("rejected", file, TRUE, FALSE, <<>>)}
       \cup UNION {{Outcome("rejected", FileOf(SubSeq(b, 1, k)), TRUE, FALSE, <<>>) :
                       k \in 0..Len(b)} : b \in bodies}
       \cup {IF ExpectedGiven(expected) /\ ~Sha1Matches(Sha1Hex(b), expected.hex)
             THEN Outcome("rejected", AfterMismatch(FileOf(b)), TRUE, TRUE, b)
             ELSE Outcome("true", FileOf(b), TRUE, TRUE, b) : b \in bodies}

NothingServed == [served |-> FALSE, body |-> <<>>]
Served(body) == [served |-> TRUE, body |-> body]
NoClientResult == [returned |-> FALSE, success |-> FALSE]
ClientFailure == [returned |-> TRUE, success |-> FALSE]
ClientSuccess == [returned |-> TRUE, success |-> TRUE]

DiskOf(client, json, library, index, asset) ==
  [client |-> client, json |-> json, library |-> library, index |-> index,
   asset |-> asset]
NoFirstCall == [returned |-> FALSE, disk |-> <<>>, log |-> {}]
FirstCall(d, log) == [returned |-> TRUE, disk |-> d, log |-> log]

\* a data directory that holds nothing of the version, or an older client JAR
InitClient ==
  /\ FileIdle
  /\ BatchIdle
  /\ HostIdle
  /\ RulesIdle
  /\ LaunchIdle
  /\ InstallIdle
  /\ CacheIdle
  /\ AssetIdle
  /\ NativeIdle
  /\ LifecycleIdle
  /\ MergeIdle
  /\ ResolverIdle
  /\ kpc = "idle"
  /\ validateIntegrity \in BOOLEAN
  /\ assetsVariant \in {"batched", "pooled"}
  /\ clientJar \in {NoFile, FileOf(LibraryBytes)}
  /\ versionJsonFile = NoFile /\ libraryJar = NoFile
  /\ assetIndexFile = NoFile /\ assetObject = NoFile
  /\ httpLog = {} /\ servedClient = NothingServed
  /\ clientResult = NoClientResult /\ clientCalls = 0
  /\ afterFirst = NoFirstCall

\* downloadClient returns result with the disk as d and the requests as log
ReturnClient(result, d, log) ==
  /\ kpc' = "idle"
  /\ clientResult' = result
  /\ clientCalls' = clientCalls + 1
  /\ afterFirst' = IF clientCalls = 0 THEN FirstCall(d, log) ELSE afterFirst

Logged(o, what) == IF o.requested THEN httpLog \cup {what} ELSE httpLog

\* line 59
CallDownloadClient ==
  /\ kpc = "idle"
  /\ clientCalls < MaxClientCalls
  /\ kpc' = "getVersionInfo"
  /\ httpLog' = {}
  /\ servedClient' = NothingServed
  /\ clientResult' = NoClientResult
  /\ UNCHANGED <<validateIntegrity, assetsVariant, clientJar, versionJsonFile,
                 libraryJar, assetIndexFile, assetObject, clientCalls, afterFirst>>
  /\ UNCHANGED notClientVars

\* line 66
GetVersionInfo ==
  /\ kpc = "getVersionInfo"
  /\ kpc' = "downloadClientJar"
  /\ UNCHANGED <<validateIntegrity, assetsVariant, clientJar, versionJsonFile,
                 libraryJar, assetIndexFile, assetObject, httpLog, servedClient,
                 clientResult, clientCalls, afterFirst>>
  /\ UNCHANGED notClientVars

\* lines 66, 103-108: getVersionInfo throws
GetVersionInfoFails ==
  /\ kpc = "getVersionInfo"
  /\ ReturnClient(ClientFailure,
                  DiskOf(clientJar, versionJsonFile, libraryJar, assetIndexFile, assetObject),
                  httpLog)
  /\ UNCHANGED <<validateIntegrity, assetsVariant, clientJar, versionJsonFile,
                 libraryJar, assetIndexFile, assetObject, httpLog, servedClient>>
  /\ UNCHANGED notClientVars

\* lines 69-78, 135-174: downloadClientJar; a false result and a rejection
\* both make it return a failure, which downloadClient returns
DownloadClientJar(o) ==
  /\ kpc = "downloadClientJar"
  /\ clientJar' = o.file
  /\ httpLog' = Logged(o, "client")
  /\ servedClient' = IF o.complete THEN Served(o.body) ELSE servedClient
  /\ IF o.result = "true"
     THEN /\ kpc' = "saveVersionJson"
          /\ UNCHANGED <<clientResult, clientCalls, afterFirst>>
     ELSE ReturnClient(ClientFailure,
                       DiskOf(o.file, versionJsonFile, libraryJar, assetIndexFile, assetObject),
                       Logged(o, "client"))
  /\ UNCHANGED <<validateIntegrity, assetsVariant, versionJsonFile, libraryJar,
                 assetIndexFile, assetObject>>
  /\ UNCHANGED notClientVars

\* lines 81, 117-126
SaveVersionJson ==
  /\ kpc = "saveVersionJson"
  /\ versionJsonFile' = FileOf(DescriptorBytes)
  /\ kpc' = "downloadLibraries"
  /\ UNCHANGED <<validateIntegrity, assetsVariant, clientJar, libraryJar,
                 assetIndexFile, assetObject, httpLog, servedClient, clientResult,
                 clientCalls, afterFirst>>
  /\ UNCHANGED notClientVars

\* lines 84-89; libraries-downloader.ts 859-875: downloadFiles with the
\* artifact's sha1; its result is not looked at
DownloadLibraries(o) ==
  /\ kpc = "downloadLibraries"
  /\ libraryJar' = o.file
  /\ httpLog' = Logged(o, "library")
  /\ kpc' = "downloadAssetIndex"
  /\ UNCHANGED <<validateIntegrity, assetsVariant, clientJar, versionJsonFile,
                 assetIndexFile, assetObject, servedClient, clientResult,
                 clientCalls, afterFirst>>
  /\ UNCHANGED notClientVars

\* lines 92, 103-108; assets-downloader.ts 43-80: a failed index download
\* throws and downloadClient returns a failure
DownloadAssetIndex(o) ==
  /\ kpc = "downloadAssetIndex"
  /\ assetIndexFile' = o.file
  /\ httpLog' = Logged(o, "index")
  /\ IF o.result = "true"
     THEN /\ kpc' = "downloadAssets"
          /\ UNCHANGED <<clientResult, clientCalls, afterFirst>>
     ELSE ReturnClient(ClientFailure,
                       DiskOf(clientJar, versionJsonFile, libraryJar, o.file, assetObject),
                       Logged(o, "index"))
  /\ UNCHANGED <<validateIntegrity, assetsVariant, clientJar, versionJsonFile,
                 libraryJar, assetObject, servedClient>>
  /\ UNCHANGED notClientVars

\* the outcomes of one asset: the batched variant hands every entry to
\* downloadFiles with verifySha1 = false, that is to downloadFile without an
\* expected SHA-1 (assets-downloader.ts 133, downloader.ts 189-232); the
\* pooled variant skips a file that is present (lines 369-372) and else
\* calls downloadFile without an expected SHA-1 (lines 378-383)
AssetOutcomes(file) ==
  IF assetsVariant = "pooled" /\ file.exists
  THEN {Outcome("true", file, FALSE, FALSE, <<>>)}
  ELSE DownloadFileOutcomes(file, NoSha1, {AssetBytes})

\* lines 92-102: downloadAssets; its counts are not looked at
DownloadAssets(o) ==
  /\ kpc = "downloadAssets"
  /\ assetObject' = o.file
  /\ httpLog' = Logged(o, "asset")
  /\ ReturnClient(ClientSuccess,
                  DiskOf(clientJar, versionJsonFile, libraryJar, assetIndexFile, o.file),
                  Logged(o, "asset"))
  /\ UNCHANGED <<validateIntegrity, assetsVariant, clientJar, versionJsonFile,
                 libraryJar, assetIndexFile, servedClient>>
  /\ UNCHANGED notClientVars

NextClient ==
  \/ CallDownloadClient
  \/ GetVersionInfo
  \/ GetVersionInfoFails
  \/ \E o \in DownloadFileOutcomes(clientJar,
                IF validateIntegrity THEN GivenSha1(ClientSha1) ELSE NoSha1, Bodies) :
       DownloadClientJar(o)
  \/ SaveVersionJson
  \/ \E o \in DownloadFileOutcomes(libraryJar, GivenSha1(LibrarySha1), {LibraryBytes}) :
       DownloadLibraries(o)
  \/ \E o \in DownloadFileOutcomes(assetIndexFile, GivenSha1(IndexSha1), {IndexBytes}) :
       DownloadAssetIndex(o)
  \/ \E o \in AssetOutcomes(assetObject) : DownloadAssets(o)

\* =========================================================================
\*  properties of downloadClient (SpecClient)
\* =========================================================================
\* the first call requested the file and left it with the recorded SHA-1
DownloadedAndVerified(what, file, sha1) ==
  /\ afterFirst.returned
  /\ what \in afterFirst.log
  /\ FileHashesTo(file, sha1)

\* C19: a second downloadClient call issues no HTTP request for a file the
\* first call downloaded and left with its recorded SHA-1, and when the
\* first call left every file so, the disk after the second call is the
\* disk after the first.
C19_SecondCallIdempotent ==
  (kpc = "idle" /\ clientCalls = 2 /\ validateIntegrity) =>
    /\ DownloadedAndVerified("client", afterFirst.disk.client, ClientSha1)
         => "client" \notin httpLog
    /\ DownloadedAndVerified("library", afterFirst.disk.library, LibrarySha1)
         => "library" \notin httpLog
    /\ DownloadedAndVerified("index", afterFirst.disk.index, IndexSha1)
         => "index" \notin httpLog
    /\ DownloadedAndVerified("asset", afterFirst.disk.asset, AssetHash)
         => "asset" \notin httpLog
    /\ ( /\ DownloadedAndVerified("client", afterFirst.disk.client, ClientSha1)
         /\ DownloadedAndVerified("library", afterFirst.disk.library, LibrarySha1)
         /\ DownloadedAndVerified("index", afterFirst.disk.index, IndexSha1)
         /\ DownloadedAndVerified("asset", afterFirst.disk.asset, AssetHash) )
         => DiskOf(clientJar, versionJsonFile, libraryJar, assetIndexFile, assetObject)
              = afterFirst.disk

\* the client JAR request of the call was served to the end with bytes whose
\* SHA-1 is not downloads.client.sha1, integrity validation being on
ServedWrongClientJar ==
  /\ validateIntegrity
  /\ servedClient.served
  /\ ~Sha1Matches(Sha1Hex(servedClient.body), ClientSha1)

InitFileFair ==
  /\ InitFile
  /\ disk = NoFile
  /\ expectedSha1 \in {NoSha1}
       \cup {GivenSha1(Sha1Hex(b)) : b \in {c \in Bodies : Len(c) = MaxBody}}
       \cup {GivenSha1(ToUpperCase(Sha1Hex(b))) : b \in {c \in Bodies : Len(c) = MaxBody}}

\* a call that was redirected at least once has got a 200 response
RedirectedTo200 == dlpc = "stream" /\ hops > 0

\* the body of the 200 response has the SHA-1 the caller expects, if any
AcceptableBody ==
  ~ExpectedGiven(expectedSha1) \/ Sha1Matches(Sha1Hex(terminalBody), expectedSha1.hex)

\* the connection or the write stream broke while the body was delivered
TransportFailure ==
  returned = "rejected" /\ error \in {"timeout", "write error", "response error"}

\* onProgress was called once per chunk of the 200 response with the size
\* downloaded so far, and once more with the total size
ProgressOfTerminalBody ==
  progressCalls = [i \in 1..Len(terminalBody) |-> i]
                  \o (IF Len(terminalBody) > 0 THEN <<Len(terminalBody)>> ELSE <<>>)

MergeOperands ==
  {d \in BaseDescriptors : d.arguments.present}
  \cup {d \in OverlayDescriptors : Truthy(d.mainClass) /\ Truthy(d.minecraftArguments)}

\* merge(originalJson, overlay) of the installer in use
merge(originalJson, overlay) ==
  IF mergeKind = "fabric" THEN mergeFabricConfig(originalJson, overlay)
  ELSE mergeForgeConfig(originalJson, overlay)

InitMerge ==
  /\ FileIdle
  /\ BatchIdle
  /\ HostIdle
  /\ RulesIdle
  /\ LaunchIdle
  /\ InstallIdle
  /\ CacheIdle
  /\ AssetIdle
  /\ NativeIdle
  /\ ClientIdle
  /\ LifecycleIdle
  /\ ResolverIdle
  /\ mpc = "start"
  /\ mergeKind \in {"fabric", "forge"}
  /\ descriptorA \in MergeOperands
  /\ descriptorB \in MergeOperands
  /\ descriptorC \in MergeOperands
  /\ mergedAB = <<>> /\ mergedABthenC = <<>>
  /\ mergedBC = <<>> /\ mergedAthenBC = <<>>

\* part_001 lines 370, 384-395 / part_002 lines 398, 412-423: merged is a
\* shallow copy of originalJson, so merged.arguments is originalJson's own
\* arguments object when it has one, and the assignments to
\* merged.arguments.jvm and .game are made on that shared object
SharesArguments(originalJson, overlay) ==
  overlay.arguments.present /\ originalJson.arguments.present

\* the descriptor d once the arguments object it holds has become a
WithArguments(d, a) == [d EXCEPT !.arguments = a]

\* originalJson as the caller sees it after merge(originalJson, overlay)
BaseAfterMerge(originalJson, overlay) ==
  IF SharesArguments(originalJson, overlay)
  THEN WithArguments(originalJson, MergedArguments(originalJson, overlay))
  ELSE originalJson

\* merge(A, B)
MergeAB ==
  /\ mpc = "start"
  /\ mergedAB' = merge(descriptorA, descriptorB)
  /\ descriptorA' = BaseAfterMerge(descriptorA, descriptorB)
  /\ mpc' = "ab"
  /\ UNCHANGED <<mergeKind, descriptorB, descriptorC, mergedABthenC,
                 mergedBC, mergedAthenBC>>
  /\ UNCHANGED notMergeVars

\* merge(merge(A, B), C): the arguments object of merge(A, B) is A's when A
\* has one
MergeABthenC ==
  /\ mpc = "ab"
  /\ mergedABthenC' = merge(mergedAB, descriptorC)
  /\ mergedAB' = BaseAfterMerge(mergedAB, descriptorC)
  /\ descriptorA' =
       IF descriptorA.arguments.present /\ SharesArguments(mergedAB, descriptorC)
       THEN WithArguments(descriptorA, mergedAB'.arguments)
       ELSE descriptorA
  /\ mpc' = "left"
  /\ UNCHANGED <<mergeKind, descriptorB, descriptorC, mergedBC, mergedAthenBC>>
  /\ UNCHANGED notMergeVars

\* merge(B, C)
MergeBC ==
  /\ mpc = "left"
  /\ mergedBC' = merge(descriptorB, descriptorC)
  /\ descriptorB' = BaseAfterMerge(descriptorB, descriptorC)
  /\ mpc' = "bc"
  /\ UNCHANGED <<mergeKind, descriptorA, descriptorC, mergedAB,
                 mergedABthenC, mergedAthenBC>>
  /\ UNCHANGED notMergeVars

\* merge(A, merge(B, C)): merge(A, B) and merge(merge(A, B), C) hold A's
\* arguments object when A has one
MergeAthenBC ==
  /\ mpc = "bc"
  /\ mergedAthenBC' = merge(descriptorA, mergedBC)
  /\ descriptorA' = BaseAfterMerge(descriptorA, mergedBC)
  /\ mergedAB' =
       IF SharesArguments(descriptorA, mergedBC)
       THEN WithArguments(mergedAB, descriptorA'.arguments) ELSE mergedAB
  /\ mergedABthenC' =
       IF SharesArguments(descriptorA, mergedBC)
       THEN WithArguments(mergedABthenC, descriptorA'.arguments) ELSE mergedABthenC
  /\ mpc' = "done"
  /\ UNCHANGED <<mergeKind, descriptorB, descriptorC, mergedBC>>
  /\ UNCHANGED notMergeVars

NextMerge ==
  \/ MergeAB
  \/ MergeABthenC
  \/ MergeBC
  \/ MergeAthenBC

\* C29: the merge is associative on the libraries field: for all descriptors
\* A, B, C, merge(merge(A,B),C).libraries equals merge(A,merge(B,C)).libraries
\* as sequences (same elements, same total order), for both the Fabric and
\* the Forge merge.
C29_MergeAssociativeOnLibraries ==
  mpc = "done" => mergedABthenC.libraries = mergedAthenBC.libraries

\* B has no libraries field, A and C have libraries, and both groupings hold
\* A's libraries followed by C's
C29_Witness ==
  /\ mpc = "done"
  /\ ~descriptorB.libraries.present
  /\ Len(descriptorA.libraries.list) > 0
  /\ Len(descriptorC.libraries.list) > 0
  /\ descriptorA.libraries.list # descriptorC.libraries.list
  /\ mergedABthenC.libraries = Libraries(descriptorA.libraries.list \o descriptorC.libraries.list)
  /\ mergedAthenBC.libraries = mergedABthenC.libraries

\* two values of a descriptor agree on the fields a merge reads from its base
SameBase(d, e) ==
  /\ d.libraries = e.libraries
  /\ d.arguments.jvm = e.arguments.jvm
  /\ d.arguments.game = e.arguments.game
  /\ d.mainClass = e.mainClass

\* C37: mergeFabricConfig and mergeForgeConfig leave their base descriptor
\* unchanged: no merge step changes the libraries, arguments.jvm,
\* arguments.game or mainClass of A, B or C, whether it is the base of that
\* merge or of an earlier one whose result is merged again.
C37_MergeLeavesBaseUnchanged ==
  [][/\ SameBase(descriptorA, descriptorA')
     /\ SameBase(descriptorB, descriptorB')
     /\ SameBase(descriptorC, descriptorC')]_vars

\* libraries and mainClass of the base are left alone by every merge
MergeLeavesLibrariesAndMainClass ==
  [][\A d \in {<<descriptorA, descriptorA'>>, <<descriptorB, descriptorB'>>,
                <<descriptorC, descriptorC'>>} :
        d[1].libraries = d[2].libraries /\ d[1].mainClass = d[2].mainClass]_vars

\* =========================================================================
\*  the descriptor file versions/<name>/<name>.json under the public
\*  operations, applied in succession with one version name
\* =========================================================================
\* the descriptors getVersionInfo may hold for the version id
LifecycleVersionInfos ==
  {d \in BaseDescriptors : d.libraries = Libraries(<<"com.mojang:brigadier:1.0">>)}

\* the loader profiles the installers may get
LifecycleProfiles ==
  {d \in OverlayDescriptors :
     /\ Truthy(d.mainClass)
     /\ d.libraries \in {NoLibraries, Libraries(<<"net.fabricmc:fabric-loader:0.15">>)}
     /\ d.arguments \in {NoArguments, Arguments(Args(<<"-DFabricMcEmu">>), NoArgs)}}

NoOperation == [name |-> "none", success |-> FALSE, threw |-> FALSE]
Operation(name, ok) == [name |-> name, success |-> ok, threw |-> FALSE]
OperationThrew(name) == [name |-> name, success |-> FALSE, threw |-> TRUE]

\* a data directory that holds nothing of the version
InitLifecycle ==
  /\ FileIdle
  /\ BatchIdle
  /\ HostIdle
  /\ RulesIdle
  /\ LaunchIdle
  /\ InstallIdle
  /\ CacheIdle
  /\ AssetIdle
  /\ NativeIdle
  /\ ClientIdle
  /\ MergeIdle
  /\ ResolverIdle
  /\ servedInfo \in LifecycleVersionInfos
  /\ vjFile = NoJson
  /\ lastOp = NoOperation
  /\ opsDone = 0

\* an operation returns
Done(operation) ==
  /\ opsDone < MaxOperations
  /\ opsDone' = opsDone + 1
  /\ lastOp' = operation
  /\ UNCHANGED servedInfo

\* minecraft-downloader.ts 59-110: getVersionInfo throws, or the client JAR
\* download fails; the descriptor has not been saved yet
DownloadClientFailsEarly ==
  /\ Done(Operation("downloadClient", FALSE))
  /\ UNCHANGED vjFile
  /\ UNCHANGED notLifecycleVars

\* minecraft-downloader.ts 59-110, 117-126: saveVersionJson writes the
\* descriptor getVersionInfo returned; the libraries and assets follow, and a
\* failed asset index makes the call return a failure after the write
DownloadClientSaves(ok) ==
  /\ Done(Operation("downloadClient", ok))
  /\ vjFile' = Json(servedInfo)
  /\ UNCHANGED notLifecycleVars

\* part_001 lines 248-276: the target's descriptor is read, merged with the
\* profile and written back
InstallFabricWrites(profile) ==
  /\ vjFile.present
  /\ Done(Operation("installFabric", TRUE))
  /\ vjFile' = Json(mergeFabricConfig(vjFile.doc, profile))
  /\ UNCHANGED notLifecycleVars

\* part_002 lines 212-295: the same with the installer's version JSON
InstallForgeWrites(profile) ==
  /\ vjFile.present
  /\ Done(Operation("installForge", TRUE))
  /\ vjFile' = Json(mergeForgeConfig(vjFile.doc, profile))
  /\ UNCHANGED notLifecycleVars

\* part_001 lines 248-266 / part_002 lines 219-271: the loader download fails,
\* the target has no descriptor, or the Forge installer fails
InstallFails(name) ==
  /\ Done(Operation(name, FALSE))
  /\ UNCHANGED vjFile
  /\ UNCHANGED notLifecycleVars

\* libraries-downloader.ts 812-925 and assets-downloader.ts 43-149: both get
\* the descriptor as an argument and write under libraries/,
\* versions/<name>/natives and assets/
DownloadsOnly(name, ok) ==
  /\ Done(Operation(name, ok))
  /\ UNCHANGED vjFile
  /\ UNCHANGED notLifecycleVars

\* game-launcher.ts 35-118: the descriptor is read (lines 40-45); without it
\* the call throws
GenerateLaunchCommand ==
  /\ Done(IF vjFile.present THEN Operation("generateLaunchCommand", TRUE)
          ELSE OperationThrew("generateLaunchCommand"))
  /\ UNCHANGED vjFile
  /\ UNCHANGED notLifecycleVars

\* game-launcher.ts 125-173: generateLaunchCommand, then the game is spawned;
\* an error becomes a failure result
LaunchGame ==
  /\ Done(Operation("launchGame", vjFile.present))
  /\ UNCHANGED vjFile
  /\ UNCHANGED notLifecycleVars

NextLifecycle ==
  \/ DownloadClientFailsEarly
  \/ \E ok \in BOOLEAN : DownloadClientSaves(ok)
  \/ \E profile \in LifecycleProfiles : InstallFabricWrites(profile)
  \/ \E profile \in LifecycleProfiles : InstallForgeWrites(profile)
  \/ \E name \in {"installFabric", "installForge"} : InstallFails(name)
  \/ \E name \in {"downloadLibraries", "downloadAllAssets"}, ok \in BOOLEAN :
       DownloadsOnly(name, ok)
  \/ GenerateLaunchCommand
  \/ LaunchGame

\* the step changes the content of a descriptor file that exists
DescriptorModified == vjFile.present /\ vjFile' # vjFile

\* C27: once the descriptor file versions/<name>/<name>.json exists, it is
\* modified only by installForge or installFabric applied to that same name:
\* no other operation (downloadClient, downloadLibraries, downloadAllAssets,
\* generateLaunchCommand, launchGame) changes its content.
C27_DescriptorModifiedOnlyByInstall ==
  [][DescriptorModified => lastOp'.name \in {"installFabric", "installForge"}]_vars

\* the operations that only read the descriptor, or get it as an argument,
\* leave the file alone; downloadClient is the one other writer
DescriptorModifiedOnlyByInstallOrDownloadClient ==
  [][DescriptorModified =>
       lastOp'.name \in {"installFabric", "installForge", "downloadClient"}]_vars


SpecFile  == InitFile /\ [][NextFile]_vars
\* a pending request is answered or times out (60 s, line 135), and the
\* callbacks the event loop holds are run
SpecFileFair == InitFileFair /\ [][NextFile]_vars /\ WF_vars(NextFile)
SpecBatch == InitBatch /\ [][NextBatch]_vars
\* every downloadFile call settles, continuations of settled calls run, and
\* the 100 ms timer of checkCompletion fires; every step of downloadFiles
\* other than a poll that re-arms itself changes bpc, call or handled
SpecBatchFair ==
  InitBatch /\ [][NextBatch]_vars /\ WF_<<bpc, call, handled>>(NextBatch)
SpecRules == InitRules /\ [][NextRules]_vars
SpecLaunch == InitLaunch /\ [][NextLaunch]_vars
SpecInstall == InitInstall /\ [][NextInstall]_vars
SpecCache == InitCache /\ [][NextCache]_vars
SpecAssets == InitAssets /\ [][NextAssets]_vars
SpecNatives == InitNatives /\ [][NextNatives]_vars
SpecClient == InitClient /\ [][NextClient]_vars
SpecLifecycle == InitLifecycle /\ [][NextLifecycle]_vars
SpecMerge == InitMerge /\ [][NextMerge]_vars
SpecResolver == InitResolver /\ [][NextResolver]_vars

====
